---- MODULE Spec2Model ----
(***************************************************************************)
(* Model of the "prune" subcommand of bridge: a previously generated CSV   *)
(* report is read row by row, every row is parsed and re-validated against *)
(* the live filesystem, and the files of the rows flagged for removal are  *)
(* optionally backed up and then removed.                                  *)
(*                                                                         *)
(* And of the "report" subcommand: the given paths are scanned into an     *)
(* index of files by size, the index is pruned, the remaining files are    *)
(* hashed and indexed by checksum, that index is pruned, and the summary   *)
(* and the CSV report are written. Spec is prune, ReportSpec is report.    *)
(*                                                                         *)
(* A string of the program (a path, a CSV field, the content of a file, a   *)
(* checksum) is a sequence of one-character strings, the empty string <<>>; *)
(* a word that the code never takes apart ("true", a column name) is one   *)
(* element.                                                                *)
(***************************************************************************)
EXTENDS Integers, Sequences, FiniteSets, TLC

\* Largest number of data rows in the input CSV file (after the header row).
MaxRows == 2
\* Number of consecutive prune runs over the same report and filesystem.
MaxRuns == 2
\* Largest number of paths given to the report subcommand.
MaxRoots == 2

VARIABLES
    GOOS,                \* platform the binary was built for
    appConfig,           \* config.Config: the flags of the prune subcommand
    csvFile,             \* records of the input CSV file, header row first
    fs,                  \* filesystem: files (path of a regular file ->
                         \* its content) and dirs (existing directories)
    fsAtStart,           \* the filesystem when the current run started
    pc,                  \* position of pruneSubcommand
    rowCounter,          \* prune.go: rowCounter
    dfsEntries,          \* prune.go: dfsEntries
    filesToRemove,       \* prune.go: filesToRemove
    idx,                 \* index of the range loops over filesToRemove
    filesRemovedSuccess, \* prune.go: filesRemovedSuccess
    filesRemovedFail,    \* prune.go: filesRemovedFail
    output,              \* what the run has reported so far
    trace,               \* filesystem operations attempted by this run
    run,                 \* number of the current run
    prevOutput,          \* output of the previous run, <<>> in the first
    combinedFileSizeIndex,    \* main.go: combinedFileSizeIndex
    fileChecksumIndex,        \* main.go: fileChecksumIndex
    duplicateFiles,           \* main.go: duplicateFiles, the summary
    pathIndex,                \* NewFileSizeIndex: position in dirs
    unhashed,                 \* UpdateChecksums: size keys still to range over
    sizeIndexBeforePrune,     \* the size index when its pruning began
    checksumIndexBeforePrune  \* the checksum index when its pruning began

\* the state of the report subcommand
reportVars == <<combinedFileSizeIndex, fileChecksumIndex, duplicateFiles,
                pathIndex, unhashed, sizeIndexBeforePrune,
                checksumIndexBeforePrune>>

vars == <<GOOS, appConfig, csvFile, fs, fsAtStart, pc, rowCounter, dfsEntries,
          filesToRemove, idx, filesRemovedSuccess, filesRemovedFail, output,
          trace, run, prevOutput, reportVars>>

----------------------------------------------------------------------------
(* path/filepath and strings, as far as paths.go and dupesets.go use them  *)

Platforms == {"linux", "windows"}

Separator(os) == IF os = "windows" THEN "\\" ELSE "/"

IsPathSeparator(os, ch) == ch = "/" \/ (os = "windows" /\ ch = "\\")

ToSlash(os, p) ==
    IF os = "windows"
    THEN [i \in 1..Len(p) |-> IF p[i] = "\\" THEN "/" ELSE p[i]]
    ELSE p

FromSlash(os, p) ==
    IF os = "windows"
    THEN [i \in 1..Len(p) |-> IF p[i] = "/" THEN "\\" ELSE p[i]]
    ELSE p

\* Drive-letter volumes only ("C:"); empty on every other platform.
VolumeName(os, p) ==
    IF os = "windows" /\ Len(p) >= 2 /\ p[2] = ":" THEN SubSeq(p, 1, 2) ELSE <<>>

RECURSIVE ReplaceAll(_, _, _)
ReplaceAll(s, old, new) ==
    IF Len(s) < Len(old) \/ Len(old) = 0 THEN s
    ELSE IF SubSeq(s, 1, Len(old)) = old
         THEN new \o ReplaceAll(SubSeq(s, Len(old) + 1, Len(s)), old, new)
         ELSE <<Head(s)>> \o ReplaceAll(Tail(s), old, new)

LastSeparator(os, p) ==
    LET seps == {i \in 1..Len(p) : IsPathSeparator(os, p[i])}
    IN  IF seps = {} THEN 0 ELSE CHOOSE i \in seps : \A j \in seps : j <= i

\* Clean for paths without ".." and without repeated separators: the result
\* uses the platform separator, a trailing "." element and a trailing
\* separator are dropped, and the empty path becomes ".".
RECURSIVE Clean(_, _)
Clean(os, p) ==
    LET q == FromSlash(os, p)
        n == Len(q)
    IN  IF n = 0 THEN <<".">>
        ELSE IF n >= 2 /\ q[n] = "." /\ IsPathSeparator(os, q[n - 1])
             THEN Clean(os, SubSeq(q, 1, n - 1))
        ELSE IF n >= 2 /\ IsPathSeparator(os, q[n])
                /\ Len(VolumeName(os, q)) < n - 1
             THEN Clean(os, SubSeq(q, 1, n - 1))
        ELSE q

Dir(os, p) ==
    LET vol == VolumeName(os, p)
        i   == LastSeparator(os, p)
    IN  vol \o Clean(os, SubSeq(p, Len(vol) + 1, i))

Base(os, p) ==
    IF p = <<>> THEN <<".">>
    ELSE SubSeq(p, LastSeparator(os, p) + 1, Len(p))

Join(os, a, b) ==
    IF a = <<>> THEN (IF b = <<>> THEN <<>> ELSE Clean(os, b))
    ELSE IF b = <<>> THEN Clean(os, a)
    ELSE Clean(os, a \o <<Separator(os)>> \o b)

\* filepath.Abs of a path that is already absolute
Abs(os, p) == Clean(os, p)

RECURSIVE TrimSpace(_)
TrimSpace(s) ==
    IF s = <<>> THEN s
    ELSE IF Head(s) = " " THEN TrimSpace(Tail(s))
    ELSE IF s[Len(s)] = " " THEN TrimSpace(SubSeq(s, 1, Len(s) - 1))
    ELSE s

----------------------------------------------------------------------------
(* the filesystem                                                          *)

Root(os) == IF os = "windows" THEN <<"C", ":", "\\">> ELSE <<"/">>

\* the absolute path with the given elements, e.g. /a/f or C:\a\f
RECURSIVE MkPath(_, _)
MkPath(os, elems) ==
    IF Len(elems) = 0 THEN Root(os)
    ELSE IF Len(elems) = 1 THEN Root(os) \o <<elems[1]>>
    ELSE MkPath(os, SubSeq(elems, 1, Len(elems) - 1))
         \o <<Separator(os), elems[Len(elems)]>>

\* os.Stat succeeds: the path is a regular file or a directory
Exists(disk, p) == p \in DOMAIN disk.files \/ p \in disk.dirs

PathExists(disk, p) ==
    IF TrimSpace(p) = <<>> THEN FALSE ELSE Exists(disk, p)

\* the path itself and every proper ancestor below the volume root
Ancestors(os, p) ==
    {SubSeq(p, 1, i - 1) :
        i \in {j \in (Len(VolumeName(os, p)) + 2)..Len(p) :
                  IsPathSeparator(os, p[j])}} \cup {p}

\* os.MkdirAll fails when an element of the path is a regular file
MkdirAllFails(os, disk, p) ==
    \E d \in Ancestors(os, p) : d \in DOMAIN disk.files

\* whole-file SHA256 digest, rendered as a string
GenerateCheckSum(content) == <<"#">> \o content

----------------------------------------------------------------------------
(* the input CSV file and its rows (package dupesets)                      *)

InputCSVFieldCount == 6

\* strconv.Itoa / strconv.ParseInt for the numbers without a sign
Digits == <<"0", "1", "2", "3", "4", "5", "6", "7", "8", "9">>

IsDigit(ch) == \E n \in 1..Len(Digits) : Digits[n] = ch

DigitValue(ch) == (CHOOSE n \in 1..Len(Digits) : Digits[n] = ch) - 1

RECURSIVE DecimalValue(_)
DecimalValue(s) ==
    IF s = <<>> THEN 0
    ELSE DecimalValue(SubSeq(s, 1, Len(s) - 1)) * 10 + DigitValue(s[Len(s)])

ParseInt(s) ==
    IF s # <<>> /\ \A i \in 1..Len(s) : IsDigit(s[i])
    THEN [err |-> FALSE, value |-> DecimalValue(s)]
    ELSE [err |-> TRUE, value |-> 0]

ParseBool(s) ==
    IF s \in {<<"1">>, <<"t">>, <<"T">>, <<"TRUE">>, <<"true">>, <<"True">>}
    THEN [err |-> FALSE, value |-> TRUE]
    ELSE IF s \in {<<"0">>, <<"f">>, <<"F">>, <<"FALSE">>, <<"false">>, <<"False">>}
    THEN [err |-> FALSE, value |-> FALSE]
    ELSE [err |-> TRUE, value |-> FALSE]

\* strconv.FormatInt(n, 10) of a number that is not negative
RECURSIVE FormatInt(_)
FormatInt(n) ==
    IF n < 10 THEN <<Digits[n + 1]>>
    ELSE FormatInt(n \div 10) \o <<Digits[(n % 10) + 1]>>

\* units.ByteCountIEC below 1024 bytes
ByteCountIEC(n) == FormatInt(n) \o <<" B">>

NoEntry ==
    [ParentDirectory |-> <<>>, Filename |-> <<>>, SizeHR |-> <<>>,
     SizeInBytes |-> 0, Checksum |-> <<>>, RemoveFile |-> FALSE]

GenerateCSVHeaderRow ==
    << <<"directory">>, <<"file">>, <<"size">>, <<"size_in_bytes">>,
       <<"checksum">>, <<"remove_file">> >>

\* ParseInputRow that takes a row without a checksum
ParseInputRow_ChecksumOptional(row, fieldCount) ==
    IF Len(row) # fieldCount
    THEN [err |-> "unexpected number of fields", entry |-> NoEntry]
    ELSE IF TrimSpace(row[1]) = <<>>
    THEN [err |-> "empty parent directory path", entry |-> NoEntry]
    ELSE IF TrimSpace(row[2]) = <<>>
    THEN [err |-> "empty filename", entry |-> NoEntry]
    ELSE [err |-> "",
          entry |->
            [ParentDirectory |-> TrimSpace(row[1]),
             Filename        |-> TrimSpace(row[2]),
             SizeHR          |-> TrimSpace(row[3]),
             SizeInBytes     |-> 0,
             Checksum        |-> TrimSpace(row[5]),
             RemoveFile      |-> TrimSpace(row[6]) = <<"true">>]]

\* Returns the entry and the error ("" when parsing succeeded).
ParseInputRow(row, fieldCount) ==
    IF Len(row) # fieldCount
    THEN [err |-> "unexpected number of fields", entry |-> NoEntry]
    ELSE IF TrimSpace(row[1]) = <<>>
    THEN [err |-> "empty parent directory path", entry |-> NoEntry]
    ELSE IF TrimSpace(row[2]) = <<>>
    THEN [err |-> "empty filename", entry |-> NoEntry]
    ELSE IF TrimSpace(row[4]) # <<>> /\ ParseInt(TrimSpace(row[4])).err
    THEN [err |-> "failed to convert sizeInBytes", entry |-> NoEntry]
    ELSE IF TrimSpace(row[5]) = <<>>
    THEN [err |-> "empty checksum", entry |-> NoEntry]
    ELSE IF TrimSpace(row[6]) # <<>> /\ ParseBool(TrimSpace(row[6])).err
    THEN [err |-> "failed to convert remove_file", entry |-> NoEntry]
    ELSE [err |-> "",
          entry |->
            [ParentDirectory |-> TrimSpace(row[1]),
             Filename        |-> TrimSpace(row[2]),
             SizeHR          |-> TrimSpace(row[3]),
             SizeInBytes     |-> IF TrimSpace(row[4]) = <<>> THEN 0
                                 ELSE ParseInt(TrimSpace(row[4])).value,
             Checksum        |-> TrimSpace(row[5]),
             RemoveFile      |-> IF TrimSpace(row[6]) = <<>> THEN FALSE
                                 ELSE ParseBool(TrimSpace(row[6])).value]]

FullPath(os, e) == Join(os, e.ParentDirectory, e.Filename)

\* SHA256Checksum.Verify: "" when the digest of the file equals cs
Verify(disk, cs, file) ==
    IF file \notin DOMAIN disk.files THEN "read error"
    ELSE IF GenerateCheckSum(disk.files[file]) # cs THEN "checksum mismatch"
    ELSE ""

\* ValidateInputRow without the checksum verification
ValidateInputRow_NoVerify(os, disk, e) ==
    IF ~PathExists(disk, e.ParentDirectory)
    THEN "invalid parent directory path"
    ELSE IF ~PathExists(disk, FullPath(os, e)) THEN "invalid path to file"
    ELSE ""

\* ValidateInputRow without the check that the file exists
ValidateInputRow_NoFileCheck(os, disk, e) ==
    IF ~PathExists(disk, e.ParentDirectory)
    THEN "invalid parent directory path"
    ELSE IF Verify(disk, e.Checksum, FullPath(os, e)) # ""
    THEN "checksum validation failed"
    ELSE ""

ValidateInputRow(os, disk, e) ==
    IF ~PathExists(disk, e.ParentDirectory)
    THEN "invalid parent directory path"
    ELSE IF ~PathExists(disk, FullPath(os, e)) THEN "invalid path to file"
    ELSE IF Verify(disk, e.Checksum, FullPath(os, e)) # ""
    THEN "checksum validation failed"
    ELSE ""

\* os.Stat(...).Size(): a directory has an unspecified size, taken as 0
StatSize(disk, p) ==
    IF p \in DOMAIN disk.files THEN Len(disk.files[p]) ELSE 0

UpdateSizeInfo(os, disk, e) ==
    IF e.SizeInBytes = 0 /\ ~Exists(disk, FullPath(os, e))
    THEN [err |-> "unable to stat", entry |-> e]
    ELSE LET size == IF e.SizeInBytes = 0
                     THEN StatSize(disk, FullPath(os, e))
                     ELSE e.SizeInBytes
         IN  [err |-> "",
              entry |-> [e EXCEPT !.SizeInBytes = size,
                                  !.SizeHR = IF e.SizeHR = <<>>
                                             THEN ByteCountIEC(size)
                                             ELSE e.SizeHR]]

\* ProcessRow that fills in the size before it validates the row
ProcessRow_SizeFirst(os, disk, row) ==
    LET parsed == ParseInputRow(row, InputCSVFieldCount)
        invalid == ValidateInputRow(os, disk, parsed.entry)
        updated == UpdateSizeInfo(os, disk, parsed.entry)
    IN  IF parsed.err # ""
        THEN [stage |-> "parsing", err |-> parsed.err, entry |-> NoEntry]
        ELSE IF updated.err # ""
        THEN [stage |-> "updating", err |-> updated.err,
              entry |-> parsed.entry]
        ELSE IF invalid # ""
        THEN [stage |-> "validating", err |-> invalid, entry |-> parsed.entry]
        ELSE [stage |-> "", err |-> "", entry |-> updated.entry]

\* One iteration of the read loop after the header check (prune.go 75-108):
\* the stage that failed ("" when the row is accepted) and the entry.
ProcessRow(os, disk, row) ==
    LET parsed == ParseInputRow(row, InputCSVFieldCount)
        invalid == ValidateInputRow(os, disk, parsed.entry)
        updated == UpdateSizeInfo(os, disk, parsed.entry)
    IN  IF parsed.err # ""
        THEN [stage |-> "parsing", err |-> parsed.err, entry |-> NoEntry]
        ELSE IF invalid # ""
        THEN [stage |-> "validating", err |-> invalid, entry |-> parsed.entry]
        ELSE IF updated.err # ""
        THEN [stage |-> "updating", err |-> updated.err,
              entry |-> parsed.entry]
        ELSE [stage |-> "", err |-> "", entry |-> updated.entry]

\* FilesToRemove that does not look at the removal flag
FilesToRemove_AllEntries(entries) == entries

RECURSIVE FilesToRemove(_)
FilesToRemove(entries) ==
    IF entries = <<>> THEN <<>>
    ELSE (IF Head(entries).RemoveFile THEN <<Head(entries)>> ELSE <<>>)
         \o FilesToRemove(Tail(entries))

----------------------------------------------------------------------------
(* package paths: backup and removal                                       *)

\* Returns the backup directory of a source file and the error ("" if none).
GetBackupTargetDir(os, disk, filename, fullPathToBackupDir) ==
    LET fullPathToFile == Abs(os, filename)
        slashConvertedSourcePath == ToSlash(os, fullPathToFile)
        volumeName == VolumeName(os, slashConvertedSourcePath)
        volRemoved ==
            ReplaceAll(slashConvertedSourcePath, volumeName \o <<"/">>, <<>>)
        filenameRemoved == Dir(os, volRemoved)
    IN  IF ~PathExists(disk, fullPathToFile)
        THEN [err |-> "file does not exist", dir |-> <<>>]
        ELSE IF fullPathToFile \in disk.dirs
        THEN [err |-> "path to file is a directory", dir |-> <<>>]
        ELSE IF ~PathExists(disk, fullPathToBackupDir)
        THEN [err |-> "directory does not exist", dir |-> <<>>]
        ELSE IF fullPathToBackupDir \notin disk.dirs
        THEN [err |-> "not an existing directory", dir |-> <<>>]
        ELSE [err |-> "",
              dir |-> Join(os, fullPathToBackupDir, filenameRemoved)]

\* os.MkdirAll of the directory that GetBackupTargetDir returned
MkdirAll(os, disk, target) ==
    IF target.err # ""
    THEN [err |-> target.err, dir |-> <<>>, dirs |-> disk.dirs]
    ELSE IF MkdirAllFails(os, disk, target.dir)
    THEN [err |-> "failed to create backup path", dir |-> <<>>,
          dirs |-> disk.dirs]
    ELSE [err |-> "", dir |-> target.dir,
          dirs |-> disk.dirs \cup Ancestors(os, target.dir)]

\* Returns the directory, the error and the directories after os.MkdirAll.
CreateBackupDirectoryTree(os, disk, filename, fullPathToBackupDir) ==
    MkdirAll(os, disk,
             GetBackupTargetDir(os, disk, filename, fullPathToBackupDir))

\* io: what the operating system lets BackupFile do; "ok" when nothing fails
IOOutcomes == {"ok", "create fails", "copy fails", "sync fails"}

\* the files after destinationFile is created and content c written to it
WriteFile(disk, destinationFile, c) ==
    [p \in DOMAIN disk.files \cup {destinationFile} |->
        IF p = destinationFile THEN c ELSE disk.files[p]]

\* CopyFile that does not report a failed or short copy
CopyFile_CopyErrorLost(disk, sourceFilename, tree, destinationFile, io) ==
    IF tree.err # ""
    THEN [err |-> "failed to create directory", dest |-> <<>>, disk |-> disk]
    ELSE IF PathExists([files |-> disk.files, dirs |-> tree.dirs],
                       destinationFile)
    THEN [err |-> "destination file already exists",
          dest |-> destinationFile,
          disk |-> [files |-> disk.files, dirs |-> tree.dirs]]
    ELSE [err |-> "", dest |-> destinationFile,
          disk |-> [files |->
                      WriteFile(disk, destinationFile,
                          IF io = "copy fails"
                          THEN SubSeq(disk.files[sourceFilename], 1,
                                      Len(disk.files[sourceFilename]) - 1)
                          ELSE disk.files[sourceFilename]),
                    dirs |-> tree.dirs]]

\* CopyFile without the check that the destination file does not exist
CopyFile_Overwrites(disk, sourceFilename, tree, destinationFile, io) ==
    IF tree.err # ""
    THEN [err |-> "failed to create directory", dest |-> <<>>, disk |-> disk]
    ELSE [err |-> IF io = "ok" THEN "" ELSE "backup failed",
          dest |-> destinationFile,
          disk |-> [files |-> WriteFile(disk, destinationFile,
                                        disk.files[sourceFilename]),
                    dirs |-> tree.dirs]]

\* BackupFile from the point where the backup directory tree exists (or the
\* attempt to create it failed) and the destination file is known
CopyFile(disk, sourceFilename, tree, destinationFile, io) ==
    IF tree.err # ""
    THEN [err |-> "failed to create directory", dest |-> <<>>, disk |-> disk]
    ELSE IF PathExists([files |-> disk.files, dirs |-> tree.dirs],
                       destinationFile)
    THEN [err |-> "destination file already exists",
          dest |-> destinationFile,
          disk |-> [files |-> disk.files, dirs |-> tree.dirs]]
    ELSE IF io = "create fails"
    THEN [err |-> "unable to create new backup file",
          dest |-> destinationFile,
          disk |-> [files |-> disk.files, dirs |-> tree.dirs]]
    ELSE IF io = "copy fails"
    THEN [err |-> "failed to copy", dest |-> destinationFile,
          disk |-> [files |->
                      WriteFile(disk, destinationFile,
                          SubSeq(disk.files[sourceFilename], 1,
                                 Len(disk.files[sourceFilename]) - 1)),
                    dirs |-> tree.dirs]]
    ELSE [err |-> IF io = "sync fails" THEN "failed to explicitly sync"
                  ELSE "",
          dest |-> destinationFile,
          disk |-> [files |-> WriteFile(disk, destinationFile,
                                        disk.files[sourceFilename]),
                    dirs |-> tree.dirs]]

\* the file that BackupFile writes once the backup directory tree exists
DestinationFile(os, tree, sourceFilename) ==
    Join(os, tree.dir, Base(os, sourceFilename))

BackupInto(os, disk, sourceFilename, tree, io) ==
    CopyFile(disk, sourceFilename, tree,
             DestinationFile(os, tree, sourceFilename), io)

\* Returns the error ("" if none), the destination file and the filesystem
\* it leaves behind.
BackupFile(os, disk, sourceFilename, destinationDirectory, io) ==
    BackupInto(os, disk, sourceFilename,
               CreateBackupDirectoryTree(os, disk, sourceFilename,
                                         destinationDirectory),
               io)

\* Returns the error ("" if none) and the filesystem after os.Remove;
\* removable is whether the operating system permits the removal.
RemoveFile(disk, filename, dryRun, removable) ==
    IF dryRun THEN [err |-> "", disk |-> disk]
    ELSE IF filename \notin DOMAIN disk.files \/ ~removable
    THEN [err |-> "error encountered while removing", disk |-> disk]
    ELSE [err |-> "",
          disk |-> [disk EXCEPT !.files =
                      [p \in DOMAIN disk.files \ {filename} |->
                          disk.files[p]]]]

----------------------------------------------------------------------------
(* the initial state: a filesystem, a report about it, the flags           *)

ContentX == <<"x", "x">>
ContentY == <<"x", "y">>

\* The files on disk when prune starts: two files of the same name in
\* different directories; directory c and file g are gone (or never were).
InitialFiles(os) ==
    (MkPath(os, <<"a", "f">>) :> ContentX) @@
    (MkPath(os, <<"b", "f">>) :> ContentY)

BackupRoot(os) == MkPath(os, <<"k">>)

InitialDirs(os) ==
    {Root(os), MkPath(os, <<"a">>), MkPath(os, <<"b">>), BackupRoot(os)}

\* (directory, file) pairs a report row may name
RowPaths(os) ==
    { <<MkPath(os, <<"a">>), <<"f">>>>, <<MkPath(os, <<"b">>), <<"f">>>>,
      <<MkPath(os, <<"a">>), <<"g">>>>, <<MkPath(os, <<"c">>), <<"f">>>> }

RowChecksums == {GenerateCheckSum(ContentX), GenerateCheckSum(ContentY)}

\* The size, size_in_bytes and remove_file fields of a row as the report
\* wrote it, and of a row the user flagged (and blanked the sizes of).
AsWritten ==
    << ByteCountIEC(Len(ContentX)), <<Digits[Len(ContentX) + 1]>>, <<>> >>
Flagged == << <<>>, <<>>, <<"true">> >>

\* The rows a report may hold: a flagged row for every path, rows left as
\* written and a row with an explicit "false" for one file. The checksum of
\* a row whose file is gone is never looked at, so one checksum stands for
\* all.
ChecksumsFor(os, dn) ==
    {c \in RowChecksums :
        \/ Join(os, dn[1], dn[2]) \in DOMAIN InitialFiles(os)
        \/ c = GenerateCheckSum(ContentX)}

Rows(os) ==
    UNION { { <<dn[1], dn[2], Flagged[1], Flagged[2], ck, Flagged[3]>> :
                ck \in ChecksumsFor(os, dn) } :
            dn \in RowPaths(os) }
    \cup { <<MkPath(os, <<"a">>), <<"f">>, AsWritten[1], AsWritten[2],
             ck, AsWritten[3]>> : ck \in RowChecksums }
    \cup { <<MkPath(os, <<"a">>), <<"f">>, AsWritten[1], AsWritten[2],
             GenerateCheckSum(ContentX), <<"false">>>> }

Reports(os) ==
    UNION { {<<GenerateCSVHeaderRow>> \o [i \in 1..n |-> body[i]] :
                body \in [1..n -> Rows(os)]} : n \in 1..MaxRows }

\* Rows of an edited report that are not as the report wrote them: the
\* blank row between two sets, a row that lost its last column or got one
\* more, rows with one required field blanked, and a row with every
\* optional field blanked.
OddRows(os) ==
    LET a == MkPath(os, <<"a">>)
        ck == GenerateCheckSum(ContentX)
    IN  { << <<>>, <<>>, <<>>, <<>>, <<>>, <<>> >>,
          <<a, <<"f">>, AsWritten[1], AsWritten[2], ck>>,
          <<a, <<"f">>, AsWritten[1], AsWritten[2], ck, <<"true">>, <<>>>>,
          << <<>>, <<"f">>, <<>>, <<>>, ck, <<"true">> >>,
          <<a, <<>>, <<>>, <<>>, ck, <<"true">>>>,
          <<a, <<"f">>, <<>>, <<>>, <<>>, <<"true">>>>,
          <<a, <<"f">>, <<>>, <<>>, ck, <<>>>> }

\* the reports with one such row, alone or followed by the row of /a/f,
\* flagged or with every optional field blank
OddReports(os) ==
    { <<GenerateCSVHeaderRow, odd>> \o rest :
        odd \in OddRows(os),
        rest \in { <<>>,
                   << <<MkPath(os, <<"a">>), <<"f">>, Flagged[1], Flagged[2],
                        GenerateCheckSum(ContentX), Flagged[3]>> >>,
                   << <<MkPath(os, <<"a">>), <<"f">>, <<>>, <<>>,
                        GenerateCheckSum(ContentX), <<>>>> >> } }

\* The reports of a duplicate set: /a/f and /b/f with the checksum of the
\* one content both hold, each row flagged by the user or left as written.
DuplicateSetReports(os) ==
    { <<GenerateCSVHeaderRow,
        <<MkPath(os, <<"a">>), <<"f">>, ra[1], ra[2],
          GenerateCheckSum(ContentX), ra[3]>>,
        <<MkPath(os, <<"b">>), <<"f">>, rb[1], rb[2],
          GenerateCheckSum(ContentX), rb[3]>> >> :
        ra \in {AsWritten, Flagged}, rb \in {AsWritten, Flagged} }

Configs(os) ==
    [DryRun : BOOLEAN, IgnoreErrors : BOOLEAN, UseFirstRow : {FALSE},
     BackupDirectory : {<<>>, BackupRoot(os)}]

InitialDisk(os) == [files |-> InitialFiles(os), dirs |-> InitialDirs(os)]

\* the disk on which /b/f is a second copy of /a/f
DuplicateDisk(os) ==
    [files |-> (MkPath(os, <<"a", "f">>) :> ContentX) @@
               (MkPath(os, <<"b", "f">>) :> ContentX),
     dirs  |-> InitialDirs(os)]

\* The disk a report is used on: the report of a duplicate set on the disk
\* that holds the set, every other report on the disk of two different files.
StartDisk(os, report) ==
    IF report \in DuplicateSetReports(os)
    THEN DuplicateDisk(os)
    ELSE InitialDisk(os)

\* a map without keys, and the zero value of matches.DuplicateFilesSummary
EmptyIndex == [key \in {} |-> <<>>]

NoSummary ==
    [TotalEvaluatedFiles |-> 0, FileSizeMatchSets |-> 0,
     FileHashMatchSets |-> 0, FileSizeMatches |-> 0, FileHashMatches |-> 0,
     WastedSpace |-> 0, DuplicateCount |-> 0]

Init ==
    /\ GOOS \in Platforms
    /\ appConfig \in Configs(GOOS)
    /\ csvFile \in Reports(GOOS) \cup OddReports(GOOS)
                   \cup DuplicateSetReports(GOOS)
    /\ fs = StartDisk(GOOS, csvFile)
    /\ fsAtStart = StartDisk(GOOS, csvFile)
    /\ pc = "read"
    /\ rowCounter = 0
    /\ dfsEntries = <<>>
    /\ filesToRemove = <<>>
    /\ idx = 1
    /\ filesRemovedSuccess = 0
    /\ filesRemovedFail = 0
    /\ output = <<>>
    /\ trace = <<>>
    /\ run = 1
    /\ prevOutput = <<>>
    /\ combinedFileSizeIndex = EmptyIndex
    /\ fileChecksumIndex = EmptyIndex
    /\ duplicateFiles = NoSummary
    /\ pathIndex = 1
    /\ unhashed = {}
    /\ sizeIndexBeforePrune = EmptyIndex
    /\ checksumIndexBeforePrune = EmptyIndex

----------------------------------------------------------------------------
(* pruneSubcommand                                                         *)

inputs == <<GOOS, appConfig, csvFile>>
disks == <<fs, fsAtStart>>
counters == <<filesRemovedSuccess, filesRemovedFail>>
runs == <<run, prevOutput>>

\* one line of what the run prints: the message, the row or count it is
\* about, the detail, and the entries listed with it
Line(msg, n, detail, list) ==
    [msg |-> msg, n |-> n, detail |-> detail, list |-> list]

\* one attempt of this run to change the filesystem: the operation, the
\* file, the error ("" if none), for a backup the destination file, whether
\* something existed there before the attempt, and the content it had
Attempt(op, file, err, dest, existed, was) ==
    [op |-> op, file |-> file, err |-> err, dest |-> dest,
     existed |-> existed, was |-> was]

\* csvReader.Read returns io.EOF
ReadEOF ==
    /\ pc = "read"
    /\ rowCounter + 1 > Len(csvFile)
    /\ rowCounter' = rowCounter + 1
    /\ pc' = "select"
    /\ UNCHANGED <<inputs, reportVars, disks, dfsEntries, filesToRemove, idx, counters,
                   output, trace, runs>>

\* csvReader.Read returns ErrFieldCount for a record that has not
\* FieldsPerRecord fields, the first row included: log.Fatal(err), whatever
\* IgnoreErrors is
ReadFatal ==
    /\ pc = "read"
    /\ rowCounter + 1 <= Len(csvFile)
    /\ Len(csvFile[rowCounter + 1]) # InputCSVFieldCount
    /\ output' = Append(output,
           Line("wrong number of fields", rowCounter + 1, "", <<>>))
    /\ pc' = "exit 1"
    /\ rowCounter' = rowCounter + 1
    /\ UNCHANGED <<inputs, reportVars, disks, dfsEntries, filesToRemove, idx,
                   counters, trace, runs>>

\* the first row is skipped unless -use-first-row is given
SkipFirstRow ==
    /\ pc = "read"
    /\ rowCounter + 1 <= Len(csvFile)
    /\ Len(csvFile[rowCounter + 1]) = InputCSVFieldCount
    /\ rowCounter + 1 = 1
    /\ ~appConfig.UseFirstRow
    /\ rowCounter' = rowCounter + 1
    /\ output' = Append(output, Line("skipping first row", 1, "", <<>>))
    /\ UNCHANGED <<inputs, reportVars, disks, pc, dfsEntries, filesToRemove, idx,
                   counters, trace, runs>>

RowIsProcessed ==
    /\ pc = "read"
    /\ rowCounter + 1 <= Len(csvFile)
    /\ Len(csvFile[rowCounter + 1]) = InputCSVFieldCount
    /\ (rowCounter + 1 = 1 => appConfig.UseFirstRow)

\* the row parsed, validated and had its size filled in
RowAccepted ==
    /\ RowIsProcessed
    /\ LET r == ProcessRow(GOOS, fs, csvFile[rowCounter + 1])
       IN  /\ r.stage = ""
           /\ dfsEntries' = Append(dfsEntries, r.entry)
    /\ rowCounter' = rowCounter + 1
    /\ UNCHANGED <<inputs, reportVars, disks, pc, filesToRemove, idx, counters, output,
                   trace, runs>>

\* RowIgnored that leaves the read loop instead of going on to the next row
RowIgnored_StopsReading ==
    /\ RowIsProcessed
    /\ appConfig.IgnoreErrors
    /\ LET r == ProcessRow(GOOS, fs, csvFile[rowCounter + 1])
       IN  /\ r.stage # ""
           /\ output' = Append(output,
                  Line("ignoring input row", rowCounter + 1, r.err, <<>>))
    /\ rowCounter' = rowCounter + 1
    /\ pc' = "select"
    /\ UNCHANGED <<inputs, reportVars, disks, dfsEntries, filesToRemove, idx, counters,
                   trace, runs>>

\* an error in the row, IgnoreErrors set: on to the next row
RowIgnored ==
    /\ RowIsProcessed
    /\ appConfig.IgnoreErrors
    /\ LET r == ProcessRow(GOOS, fs, csvFile[rowCounter + 1])
       IN  /\ r.stage # ""
           /\ output' = Append(output,
                  Line("ignoring input row", rowCounter + 1, r.err, <<>>))
    /\ rowCounter' = rowCounter + 1
    /\ UNCHANGED <<inputs, reportVars, disks, pc, dfsEntries, filesToRemove, idx,
                   counters, trace, runs>>

\* RowFatal that logs the error and goes on to the next row
RowFatal_GoesOn ==
    /\ RowIsProcessed
    /\ ~appConfig.IgnoreErrors
    /\ LET r == ProcessRow(GOOS, fs, csvFile[rowCounter + 1])
       IN  /\ r.stage # ""
           /\ output' = Append(output,
                  Line("IgnoringErrors NOT set. Exiting.", rowCounter + 1,
                       r.err, <<>>))
    /\ rowCounter' = rowCounter + 1
    /\ UNCHANGED <<inputs, reportVars, disks, pc, dfsEntries, filesToRemove, idx,
                   counters, trace, runs>>

\* an error in the row, IgnoreErrors not set: log.Fatal
RowFatal ==
    /\ RowIsProcessed
    /\ ~appConfig.IgnoreErrors
    /\ LET r == ProcessRow(GOOS, fs, csvFile[rowCounter + 1])
       IN  /\ r.stage # ""
           /\ output' = Append(output,
                  Line("IgnoringErrors NOT set. Exiting.", rowCounter + 1,
                       r.err, <<>>))
    /\ pc' = "exit 1"
    /\ rowCounter' = rowCounter + 1
    /\ UNCHANGED <<inputs, reportVars, disks, dfsEntries, filesToRemove, idx, counters,
                   trace, runs>>

\* no entry is flagged for removal: "Nothing to do, exiting."
NothingToDo ==
    /\ pc = "select"
    /\ FilesToRemove(dfsEntries) = <<>>
    /\ filesToRemove' = <<>>
    /\ output' = Append(output,
           Line("Nothing to do, exiting.", Len(dfsEntries), "", <<>>))
    /\ pc' = "exit 0"
    /\ UNCHANGED <<inputs, reportVars, disks, rowCounter, dfsEntries, idx, counters,
                   trace, runs>>

\* dry-run: the files to remove are listed, backup and removal are skipped
DryRunOnly ==
    /\ pc = "select"
    /\ FilesToRemove(dfsEntries) # <<>>
    /\ appConfig.DryRun
    /\ filesToRemove' = FilesToRemove(dfsEntries)
    /\ output' = output \o
           << Line("files to remove", Len(filesToRemove'), "", filesToRemove'),
              Line("Dry-run enabled, no files removed", 0, "", <<>>) >>
    /\ pc' = "exit 0"
    /\ UNCHANGED <<inputs, reportVars, disks, rowCounter, dfsEntries, idx, counters,
                   trace, runs>>

\* RemovalMode without the check of DryRun
RemovalMode_IgnoresDryRun ==
    /\ pc = "select"
    /\ FilesToRemove(dfsEntries) # <<>>
    /\ filesToRemove' = FilesToRemove(dfsEntries)
    /\ idx' = 1
    /\ pc' = IF appConfig.BackupDirectory = <<>> THEN "remove" ELSE "backup"
    /\ output' = Append(output,
           Line("files to remove", Len(filesToRemove'), "", filesToRemove'))
    /\ UNCHANGED <<inputs, reportVars, disks, rowCounter, dfsEntries, counters, trace,
                   runs>>

\* file removal mode: on to the backup loop, or straight to the removal loop
RemovalMode ==
    /\ pc = "select"
    /\ FilesToRemove(dfsEntries) # <<>>
    /\ ~appConfig.DryRun
    /\ filesToRemove' = FilesToRemove(dfsEntries)
    /\ idx' = 1
    /\ IF appConfig.BackupDirectory = <<>>
       THEN /\ pc' = "remove"
            /\ output' = Append(output,
                   Line("files to remove", Len(filesToRemove'), "",
                        filesToRemove'))
       ELSE IF ~PathExists(fs, appConfig.BackupDirectory)
       THEN /\ pc' = "exit 1"
            /\ output' = output \o
                   << Line("files to remove", Len(filesToRemove'), "",
                           filesToRemove'),
                      Line("backup directory does not exist", 0, "", <<>>) >>
       ELSE /\ pc' = "backup"
            /\ output' = Append(output,
                   Line("files to remove", Len(filesToRemove'), "",
                        filesToRemove'))
    /\ UNCHANGED <<inputs, reportVars, disks, rowCounter, dfsEntries, counters, trace,
                   runs>>

\* the record of a backup attempt with result r
BackupAttempt(fullPathToFile, r) ==
    Attempt("backup", fullPathToFile, r.err, r.dest, Exists(fs, r.dest),
            IF r.dest \in DOMAIN fs.files THEN fs.files[r.dest] ELSE <<>>)

\* the results BackupFile may have for the file at idx
BackupResults ==
    {BackupFile(GOOS, fs, FullPath(GOOS, filesToRemove[idx]),
                appConfig.BackupDirectory, io) : io \in IOOutcomes}

\* backup loop: the file is copied below the backup directory
BackupDone ==
    /\ pc = "backup"
    /\ idx <= Len(filesToRemove)
    /\ \E r \in BackupResults :
         /\ r.err = ""
         /\ fs' = r.disk
         /\ trace' = Append(trace,
                BackupAttempt(FullPath(GOOS, filesToRemove[idx]), r))
    /\ idx' = idx + 1
    /\ UNCHANGED <<inputs, reportVars, fsAtStart, pc, rowCounter, dfsEntries,
                   filesToRemove, counters, output, runs>>

\* backup loop: BackupFile returns an error, log.Fatal
BackupFatal ==
    /\ pc = "backup"
    /\ idx <= Len(filesToRemove)
    /\ \E r \in BackupResults :
         /\ r.err # ""
         /\ fs' = r.disk
         /\ trace' = Append(trace,
                BackupAttempt(FullPath(GOOS, filesToRemove[idx]), r))
         /\ output' = Append(output, Line(r.err, idx, "", <<>>))
    /\ pc' = "exit 1"
    /\ UNCHANGED <<inputs, reportVars, fsAtStart, rowCounter, dfsEntries, filesToRemove,
                   idx, counters, runs>>

\* every flagged file is backed up: on to the removal loop
BackupLoopEnds ==
    /\ pc = "backup"
    /\ idx > Len(filesToRemove)
    /\ pc' = "remove"
    /\ idx' = 1
    /\ UNCHANGED <<inputs, reportVars, disks, rowCounter, dfsEntries, filesToRemove,
                   counters, output, trace, runs>>

\* the results RemoveFile may have for the file at idx
RemoveResults ==
    {RemoveFile(fs, FullPath(GOOS, filesToRemove[idx]), appConfig.DryRun,
                removable) : removable \in BOOLEAN}

\* the record of a removal attempt with result r
RemoveAttempt(fullPathToFile, r) ==
    Attempt("remove", fullPathToFile, r.err, <<>>, FALSE, <<>>)

\* removal loop: the file is removed
RemoveDone ==
    /\ pc = "remove"
    /\ idx <= Len(filesToRemove)
    /\ \E r \in RemoveResults :
         /\ r.err = ""
         /\ fs' = r.disk
         /\ trace' = Append(trace,
                RemoveAttempt(FullPath(GOOS, filesToRemove[idx]), r))
    /\ filesRemovedSuccess' = filesRemovedSuccess + 1
    /\ idx' = idx + 1
    /\ UNCHANGED <<inputs, reportVars, fsAtStart, pc, rowCounter, dfsEntries,
                   filesToRemove, filesRemovedFail, output, runs>>

\* RemoveFailureIgnored that counts the failed removal as a success
RemoveFailureIgnored_CountsSuccess ==
    /\ pc = "remove"
    /\ idx <= Len(filesToRemove)
    /\ appConfig.IgnoreErrors
    /\ \E r \in RemoveResults :
         /\ r.err # ""
         /\ fs' = r.disk
         /\ trace' = Append(trace,
                RemoveAttempt(FullPath(GOOS, filesToRemove[idx]), r))
         /\ output' = Append(output,
                Line("ignoring failed file removal", idx, r.err, <<>>))
    /\ filesRemovedSuccess' = filesRemovedSuccess + 1
    /\ idx' = idx + 1
    /\ UNCHANGED <<inputs, reportVars, fsAtStart, pc, rowCounter, dfsEntries,
                   filesToRemove, filesRemovedFail, runs>>

\* removal loop: the removal fails, IgnoreErrors set: counted, next file
RemoveFailureIgnored ==
    /\ pc = "remove"
    /\ idx <= Len(filesToRemove)
    /\ appConfig.IgnoreErrors
    /\ \E r \in RemoveResults :
         /\ r.err # ""
         /\ fs' = r.disk
         /\ trace' = Append(trace,
                RemoveAttempt(FullPath(GOOS, filesToRemove[idx]), r))
         /\ output' = Append(output,
                Line("ignoring failed file removal", idx, r.err, <<>>))
    /\ filesRemovedFail' = filesRemovedFail + 1
    /\ idx' = idx + 1
    /\ UNCHANGED <<inputs, reportVars, fsAtStart, pc, rowCounter, dfsEntries,
                   filesToRemove, filesRemovedSuccess, runs>>

\* RemoveFatal that logs the error and goes on to the next file
RemoveFatal_GoesOn ==
    /\ pc = "remove"
    /\ idx <= Len(filesToRemove)
    /\ ~appConfig.IgnoreErrors
    /\ \E r \in RemoveResults :
         /\ r.err # ""
         /\ fs' = r.disk
         /\ trace' = Append(trace,
                RemoveAttempt(FullPath(GOOS, filesToRemove[idx]), r))
         /\ output' = Append(output,
                Line("IgnoringErrors NOT set. Exiting.", idx, r.err, <<>>))
    /\ idx' = idx + 1
    /\ UNCHANGED <<inputs, reportVars, fsAtStart, pc, rowCounter, dfsEntries,
                   filesToRemove, counters, runs>>

\* removal loop: the removal fails, IgnoreErrors not set: log.Fatal
RemoveFatal ==
    /\ pc = "remove"
    /\ idx <= Len(filesToRemove)
    /\ ~appConfig.IgnoreErrors
    /\ \E r \in RemoveResults :
         /\ r.err # ""
         /\ fs' = r.disk
         /\ trace' = Append(trace,
                RemoveAttempt(FullPath(GOOS, filesToRemove[idx]), r))
         /\ output' = Append(output,
                Line("IgnoringErrors NOT set. Exiting.", idx, r.err, <<>>))
    /\ pc' = "exit 1"
    /\ UNCHANGED <<inputs, reportVars, fsAtStart, rowCounter, dfsEntries, filesToRemove,
                   idx, counters, runs>>

\* the removal results summary is printed and the subcommand returns
RemoveLoopEnds ==
    /\ pc = "remove"
    /\ idx > Len(filesToRemove)
    /\ output' = Append(output,
           Line("File removal: success, fail", filesRemovedSuccess, "",
                <<filesRemovedFail>>))
    /\ pc' = "exit 0"
    /\ UNCHANGED <<inputs, reportVars, disks, rowCounter, dfsEntries, filesToRemove, idx,
                   counters, trace, runs>>

Exited == pc \in {"exit 0", "exit 1"}

\* prune is started again with the same flags on the same report
NextRun ==
    /\ Exited
    /\ run < MaxRuns
    /\ run' = run + 1
    /\ prevOutput' = output
    /\ fsAtStart' = fs
    /\ pc' = "read"
    /\ rowCounter' = 0
    /\ dfsEntries' = <<>>
    /\ filesToRemove' = <<>>
    /\ idx' = 1
    /\ filesRemovedSuccess' = 0
    /\ filesRemovedFail' = 0
    /\ output' = <<>>
    /\ trace' = <<>>
    /\ UNCHANGED <<inputs, reportVars, fs>>

Next ==
    \/ ReadEOF
    \/ ReadFatal
    \/ SkipFirstRow
    \/ RowAccepted
    \/ RowIgnored
    \/ RowFatal
    \/ NothingToDo
    \/ DryRunOnly
    \/ RemovalMode
    \/ BackupDone
    \/ BackupFatal
    \/ BackupLoopEnds
    \/ RemoveDone
    \/ RemoveFailureIgnored
    \/ RemoveFatal
    \/ RemoveLoopEnds
    \/ NextRun

Spec == Init /\ [][Next]_vars

----------------------------------------------------------------------------
(* package matches: the indexes of the report subcommand                   *)

\* the names a directory entry may have, in lexical order
NameOrder == <<"a", "b", "c", "f", "g", "k", "r", "s">>

\* os.ReadDir: the names of the entries of dir, sorted by name
ReadDir(os, disk, dir) ==
    LET IsEntry(name) == Exists(disk, Join(os, dir, <<name>>))
    IN  SelectSeq(NameOrder, IsEntry)

\* What goes wrong while one path is scanned: nothing, a directory whose
\* entries cannot be read, or a file that cannot be stat'ed (removed or
\* renamed after its name was read).
NoFault == [kind |-> "none", at |-> <<>>]
Unreadable(dir) == [kind |-> "unreadable", at |-> dir]
Vanished(file) == [kind |-> "vanished", at |-> file]

\* filepath.Walk: the regular files of the tree rooted at path, in the
\* order in which the walk function is called for them; the entries of the
\* directory unreadable are not visited
RECURSIVE WalkFiles(_, _, _, _), WalkEntries(_, _, _, _, _)
WalkFiles(os, disk, path, unreadable) ==
    IF path \in DOMAIN disk.files THEN <<path>>
    ELSE IF path = unreadable THEN <<>>
    ELSE WalkEntries(os, disk, path, ReadDir(os, disk, path), unreadable)

WalkEntries(os, disk, dir, names, unreadable) ==
    IF names = <<>> THEN <<>>
    ELSE WalkFiles(os, disk, Join(os, dir, <<Head(names)>>), unreadable)
         \o WalkEntries(os, disk, dir, Tail(names), unreadable)

\* matches.FileMatch; Name and Size are those of the embedded os.FileInfo,
\* the checksum is empty until UpdateChecksums sets it
FileMatch(os, disk, fullPath, parentDirectory) ==
    [FullPath        |-> fullPath,
     ParentDirectory |-> parentDirectory,
     Name            |-> Base(os, fullPath),
     Size            |-> Len(disk.files[fullPath]),
     Checksum        |-> <<>>]

\* index[key] = append(index[key], fileMatch)
AppendMatch(index, key, fileMatch) ==
    IF key \in DOMAIN index
    THEN [index EXCEPT ![key] = Append(@, fileMatch)]
    ELSE index @@ (key :> <<fileMatch>>)

\* IndexBySize that leaves no file out
RECURSIVE IndexBySize_NoThreshold(_, _, _)
IndexBySize_NoThreshold(index, fileMatches, fileSizeThreshold) ==
    IF fileMatches = <<>> THEN index
    ELSE IndexBySize_NoThreshold(
            AppendMatch(index, Head(fileMatches).Size, Head(fileMatches)),
            Tail(fileMatches), fileSizeThreshold)

\* the files are added to the size index one after the other, those below
\* the size threshold are left out
RECURSIVE IndexBySize(_, _, _)
IndexBySize(index, fileMatches, fileSizeThreshold) ==
    IF fileMatches = <<>> THEN index
    ELSE IndexBySize(
            IF Head(fileMatches).Size < fileSizeThreshold THEN index
            ELSE AppendMatch(index, Head(fileMatches).Size, Head(fileMatches)),
            Tail(fileMatches), fileSizeThreshold)

\* the FileMatch values ProcessPath builds in the two kinds of search
WalkMatches(os, disk, path, unreadable) ==
    LET files == WalkFiles(os, disk, path, unreadable)
    IN  [i \in 1..Len(files) |->
            FileMatch(os, disk, files[i], Abs(os, Dir(os, files[i])))]

ReadDirMatches(os, disk, path) ==
    LET IsFile(name) == Join(os, path, <<name>>) \in DOMAIN disk.files
        names == SelectSeq(ReadDir(os, disk, path), IsFile)
    IN  [i \in 1..Len(names) |->
            FileMatch(os, disk, Join(os, path, <<names[i]>>), Abs(os, path))]

\* the result of ProcessPath: the error ("" if none; "panic" for a nil
\* dereference), whether the walk function logged and ignored an error,
\* where the fault was met, and the size index
ScanResult(err, ignored, site, index) ==
    [err |-> err, ignored |-> ignored, site |-> site, index |-> index]

\* ProcessPath of one path under the fault.  A recursive search hands every
\* error of the walk to the walk function: without ignoreErrors the error
\* ends the walk; with ignoreErrors it is logged and the function goes on
\* to info.IsDir(), where info is the directory that could not be read
\* (nil is returned, the walk goes on) or nil for a file that could not be
\* stat'ed (nil dereference).  A flat search returns the error of
\* os.ReadDir, and calls fileInfo.Name() on the nil fileInfo when
\* file.Info() fails (it stats the file on Unix; on Windows the entry
\* carries the information and Info cannot fail).  The index returned with
\* an error is dropped by the caller.
ProcessPath(os, disk, recursiveSearch, ignoreErrors, fileSizeThreshold, path, fault) ==
    IF recursiveSearch
    THEN IF /\ fault.kind = "unreadable"
            /\ fault.at \in disk.dirs
            /\ path \in Ancestors(os, fault.at)
         THEN IF ignoreErrors
              THEN ScanResult("", TRUE, fault.at,
                      IndexBySize(EmptyIndex,
                                  WalkMatches(os, disk, path, fault.at),
                                  fileSizeThreshold))
              ELSE ScanResult("walk error", FALSE, fault.at, EmptyIndex)
         ELSE IF /\ fault.kind = "vanished"
                 /\ fault.at \in DOMAIN disk.files
                 /\ path \in Ancestors(os, fault.at)
         THEN IF ignoreErrors
              THEN ScanResult("panic", TRUE, fault.at, EmptyIndex)
              ELSE ScanResult("walk error", FALSE, fault.at, EmptyIndex)
         ELSE ScanResult("", FALSE, <<>>,
                 IndexBySize(EmptyIndex, WalkMatches(os, disk, path, <<>>),
                             fileSizeThreshold))
    ELSE IF (fault.kind = "unreadable" /\ fault.at = path)
            \/ path \notin disk.dirs
         THEN ScanResult("error reading directory", FALSE, path, EmptyIndex)
         ELSE IF /\ fault.kind = "vanished"
                 /\ os # "windows"
                 /\ fault.at \in DOMAIN disk.files
                 /\ Dir(os, fault.at) = path
         THEN ScanResult("panic", FALSE, fault.at, EmptyIndex)
         ELSE ScanResult("", FALSE, <<>>,
                 IndexBySize(EmptyIndex, ReadDirMatches(os, disk, path),
                             fileSizeThreshold))

\* MergeFileSizeIndexes that keeps the set of the first index for a size
\* both indexes have
MergeFileSizeIndexes_FirstWins(first, second) ==
    [key \in DOMAIN first \cup DOMAIN second |->
        IF key \in DOMAIN first THEN first[key] ELSE second[key]]

\* MergeFileSizeIndexes of two indexes
MergeFileSizeIndexes(first, second) ==
    [key \in DOMAIN first \cup DOMAIN second |->
        (IF key \in DOMAIN first THEN first[key] ELSE <<>>)
        \o (IF key \in DOMAIN second THEN second[key] ELSE <<>>)]

\* PruneFileSizeIndex that deletes nothing
PruneFileSizeIndex_KeepsAll(index, duplicatesThreshold) == index

\* PruneFileSizeIndex that deletes the sets of fewer than two files only
PruneFileSizeIndex_SinglesOnly(index, duplicatesThreshold) ==
    [key \in {k \in DOMAIN index : ~(Len(index[k]) < 2)} |-> index[key]]

PruneFileSizeIndex(index, duplicatesThreshold) ==
    [key \in {k \in DOMAIN index : ~(Len(index[k]) < duplicatesThreshold)}
        |-> index[key]]

PruneFileChecksumIndex(index, duplicatesThreshold) ==
    [key \in {k \in DOMAIN index : ~(Len(index[k]) < duplicatesThreshold)}
        |-> index[key]]

\* FileMatches.UpdateChecksums: fails is the set of positions whose
\* GenerateCheckSum returns an error. Returns the error, the updated slice
\* and the positions for which GenerateCheckSum was called.
UpdateChecksums(disk, fileMatches, ignoreErrors, fails) ==
    LET stop == IF ignoreErrors \/ fails = {} THEN Len(fileMatches) + 1
                ELSE CHOOSE i \in fails : \A j \in fails : i <= j
    IN  [err |-> IF stop <= Len(fileMatches) THEN "checksum error" ELSE "",
         called |-> {i \in 1..Len(fileMatches) : i <= stop},
         fileMatches |->
            [i \in 1..Len(fileMatches) |->
                IF i < stop /\ i \notin fails
                THEN [fileMatches[i] EXCEPT !.Checksum =
                         GenerateCheckSum(disk.files[fileMatches[i].FullPath])]
                ELSE fileMatches[i]]]

\* the orders in which a range loop may visit the keys of a map
KeyOrders(keys) ==
    {order \in [1..Cardinality(keys) -> keys] :
        \A i, j \in 1..Cardinality(keys) : i # j => order[i] # order[j]}

\* the FileMatch values of an index, set after set in the given key order
RECURSIVE AllMatches(_, _)
AllMatches(index, order) ==
    IF order = <<>> THEN <<>>
    ELSE index[Head(order)] \o AllMatches(index, Tail(order))

RECURSIVE IndexByChecksum(_, _)
IndexByChecksum(index, fileMatches) ==
    IF fileMatches = <<>> THEN index
    ELSE IndexByChecksum(
            AppendMatch(index, Head(fileMatches).Checksum, Head(fileMatches)),
            Tail(fileMatches))

\* NewFileChecksumIndex, the range over the size index in the given order
NewFileChecksumIndex(sizeIndex, order) ==
    IndexByChecksum(EmptyIndex, AllMatches(sizeIndex, order))

RECURSIVE GetTotalFilesCount(_)
GetTotalFilesCount(index) ==
    IF DOMAIN index = {} THEN 0
    ELSE LET key == CHOOSE k \in DOMAIN index : TRUE
         IN  Len(index[key])
             + GetTotalFilesCount([k \in DOMAIN index \ {key} |-> index[k]])

\* GetWastedSpace that counts every file of a set
RECURSIVE GetWastedSpace_CountsOriginal(_)
GetWastedSpace_CountsOriginal(index) ==
    IF DOMAIN index = {} THEN 0
    ELSE LET key == CHOOSE k \in DOMAIN index : TRUE
         IN  Len(index[key]) * index[key][1].Size
             + GetWastedSpace_CountsOriginal(
                  [k \in DOMAIN index \ {key} |-> index[k]])

RECURSIVE GetWastedSpace(_)
GetWastedSpace(index) ==
    IF DOMAIN index = {} THEN 0
    ELSE LET key == CHOOSE k \in DOMAIN index : TRUE
         IN  (Len(index[key]) - 1) * index[key][1].Size
             + GetWastedSpace([k \in DOMAIN index \ {key} |-> index[k]])

\* GetDuplicateFilesCount that counts every file of a set
RECURSIVE GetDuplicateFilesCount_CountsOriginal(_)
GetDuplicateFilesCount_CountsOriginal(index) ==
    IF DOMAIN index = {} THEN 0
    ELSE LET key == CHOOSE k \in DOMAIN index : TRUE
         IN  Len(index[key])
             + GetDuplicateFilesCount_CountsOriginal(
                  [k \in DOMAIN index \ {key} |-> index[k]])

RECURSIVE GetDuplicateFilesCount(_)
GetDuplicateFilesCount(index) ==
    IF DOMAIN index = {} THEN 0
    ELSE LET key == CHOOSE k \in DOMAIN index : TRUE
         IN  (Len(index[key]) - 1)
             + GetDuplicateFilesCount([k \in DOMAIN index \ {key} |-> index[k]])

\* the DuplicateFilesSummary main builds from the two pruned indexes
DuplicateFilesSummary(sizeIndex, checksumIndex) ==
    [TotalEvaluatedFiles |-> Cardinality(DOMAIN sizeIndex),
     FileSizeMatches     |-> GetTotalFilesCount(sizeIndex),
     FileSizeMatchSets   |-> Cardinality(DOMAIN sizeIndex),
     FileHashMatches     |-> GetTotalFilesCount(checksumIndex),
     FileHashMatchSets   |-> Cardinality(DOMAIN checksumIndex),
     WastedSpace         |-> GetWastedSpace(checksumIndex),
     DuplicateCount      |-> GetDuplicateFilesCount(checksumIndex)]

GenerateEmptyCSVDataRow == << <<>>, <<>>, <<>>, <<>>, <<>>, <<>> >>

GenerateCSVDataRow(fileMatch) ==
    << fileMatch.ParentDirectory, fileMatch.Name,
       ByteCountIEC(fileMatch.Size), FormatInt(fileMatch.Size),
       fileMatch.Checksum, <<>> >>

\* the records WriteFileMatchesCSV writes, the sets in the given key order
RECURSIVE CSVDataRows(_, _, _)
CSVDataRows(index, order, blankLineBetweenSets) ==
    IF order = <<>> THEN <<>>
    ELSE (IF blankLineBetweenSets THEN <<GenerateEmptyCSVDataRow>> ELSE <<>>)
         \o [i \in 1..Len(index[Head(order)]) |->
                GenerateCSVDataRow(index[Head(order)][i])]
         \o CSVDataRows(index, Tail(order), blankLineBetweenSets)

----------------------------------------------------------------------------
(* the report subcommand (main)                                            *)

\* file contents: empty, two of two bytes, one of three bytes, and two of
\* a hundred bytes that differ in the last byte
ContentE == <<>>
ContentW == <<"x", "x", "x">>
ContentB == [i \in 1..100 |-> "x"]
ContentC == [i \in 1..100 |-> IF i = 100 THEN "y" ELSE "x"]

ScanDirs(os) ==
    {Root(os), MkPath(os, <<"a">>), MkPath(os, <<"a", "s">>), BackupRoot(os)}

\* the file at path with the content, no file for the content "absent"
FileAt(path, content) ==
    IF content = <<"absent">> THEN EmptyIndex ELSE (path :> content)

\* The filesystems a report run may find: /a/f, optionally /a/g and
\* /a/s/f, with small contents or with contents of a hundred bytes.
ScanDisks(os) ==
    { [files |-> FileAt(MkPath(os, <<"a", "f">>), ContentX)
                 @@ FileAt(MkPath(os, <<"a", "g">>), g)
                 @@ FileAt(MkPath(os, <<"a", "s", "f">>), sf),
       dirs |-> ScanDirs(os)] :
         g \in {<<"absent">>, ContentE, ContentX, ContentY, ContentW},
         sf \in {<<"absent">>, ContentX, ContentY, ContentW} }
    \cup
    { [files |-> FileAt(MkPath(os, <<"a", "f">>), ContentB)
                 @@ FileAt(MkPath(os, <<"a", "g">>), g)
                 @@ FileAt(MkPath(os, <<"a", "s", "f">>), sf),
       dirs |-> ScanDirs(os)] :
         g \in {ContentB}, sf \in {ContentB, ContentC} }

\* the paths the user may name: two directories, one inside the other, and
\* a directory that does not exist
ScanRoots(os) ==
    {MkPath(os, <<"a">>), MkPath(os, <<"a", "s">>), MkPath(os, <<"c">>)}

PathLists(os) ==
    UNION { [1..n -> ScanRoots(os)] : n \in 1..MaxRoots }

\* the files whose GenerateCheckSum may fail (unreadable, vanished, I/O)
Fragile(os) == {MkPath(os, <<"a", "g">>), MkPath(os, <<"a", "s", "f">>)}

\* the flags of the report subcommand that pass Config.Validate
ReportConfigs(os) ==
    [Paths : PathLists(os), RecursiveSearch : BOOLEAN,
     IgnoreErrors : BOOLEAN, FileSizeThreshold : {1, 3},
     FileDuplicatesThreshold : {2, 3},
     OutputCSVFile : {Join(os, BackupRoot(os), <<"r">>)},
     BlankLineBetweenSets : {FALSE}]

ReportInit ==
    /\ GOOS \in Platforms
    /\ appConfig \in ReportConfigs(GOOS)
    /\ csvFile = <<>>
    /\ fs \in ScanDisks(GOOS)
    /\ fsAtStart = fs
    /\ pc = "scan"
    /\ rowCounter = 0
    /\ dfsEntries = <<>>
    /\ filesToRemove = <<>>
    /\ idx = 1
    /\ filesRemovedSuccess = 0
    /\ filesRemovedFail = 0
    /\ output = <<>>
    /\ trace = <<>>
    /\ run = 1
    /\ prevOutput = <<>>
    /\ combinedFileSizeIndex = EmptyIndex
    /\ fileChecksumIndex = EmptyIndex
    /\ duplicateFiles = NoSummary
    /\ pathIndex = 1
    /\ unhashed = {}
    /\ sizeIndexBeforePrune = EmptyIndex
    /\ checksumIndexBeforePrune = EmptyIndex

\* what the report subcommand never touches
pruneVars == <<fsAtStart, rowCounter, dfsEntries, filesToRemove, idx,
               filesRemovedSuccess, filesRemovedFail, run, prevOutput>>

\* the faults a scan may meet: either directory unreadable, either of the
\* fragile files gone when it is stat'ed
ScanFaults(os) ==
    {NoFault}
    \cup {Unreadable(dir) : dir \in {MkPath(os, <<"a">>),
                                     MkPath(os, <<"a", "s">>)}}
    \cup {Vanished(file) : file \in Fragile(os)}

\* NewFileSizeIndex, one pass of its loop over dirs: the size index of the
\* path and the error ("" if none)
ScanOnePath(os, disk, config, path, fault) ==
    IF ~PathExists(disk, path)
    THEN ScanResult("provided path does not exist", FALSE, path, EmptyIndex)
    ELSE LET r == ProcessPath(os, disk, config.RecursiveSearch,
                              config.IgnoreErrors, config.FileSizeThreshold,
                              path, fault)
         IN  IF r.err \notin {"", "panic"}
             THEN ScanResult("failed to process path", FALSE, r.site,
                             EmptyIndex)
             ELSE r

ScanResults ==
    {ScanOnePath(GOOS, fs, appConfig, appConfig.Paths[pathIndex], fault) :
        fault \in ScanFaults(GOOS)}

\* NewFileSizeIndex: the next path is processed and merged
ScanPath ==
    /\ pc = "scan"
    /\ pathIndex <= Len(appConfig.Paths)
    /\ \E r \in ScanResults :
         /\ r.err = ""
         /\ combinedFileSizeIndex' =
               MergeFileSizeIndexes(combinedFileSizeIndex, r.index)
         /\ output' = IF r.ignored
                      THEN Append(output,
                              Line("Ignoring error as requested", pathIndex,
                                   "walk error", r.site))
                      ELSE output
    /\ pathIndex' = pathIndex + 1
    /\ UNCHANGED <<inputs, fs, pruneVars, pc, trace,
                   fileChecksumIndex, duplicateFiles, unhashed,
                   sizeIndexBeforePrune, checksumIndexBeforePrune>>

\* NewFileSizeIndex returns an error, IgnoreErrors not set: log.Fatalf
ScanFatal ==
    /\ pc = "scan"
    /\ pathIndex <= Len(appConfig.Paths)
    /\ ~appConfig.IgnoreErrors
    /\ \E r \in ScanResults :
         /\ r.err \notin {"", "panic"}
         /\ output' = Append(output,
               Line("Failed to build file size index", pathIndex, r.err,
                    r.site))
    /\ pc' = "exit 1"
    /\ UNCHANGED <<inputs, fs, pruneVars, trace, reportVars>>

\* NewFileSizeIndex returns nil and an error, IgnoreErrors set: main goes
\* on with the nil index
ScanErrorIgnored ==
    /\ pc = "scan"
    /\ pathIndex <= Len(appConfig.Paths)
    /\ appConfig.IgnoreErrors
    /\ \E r \in ScanResults :
         /\ r.err \notin {"", "panic"}
         /\ output' = Append(output,
               Line("Attempting to ignore errors as requested", pathIndex,
                    r.err, r.site))
    /\ combinedFileSizeIndex' = EmptyIndex
    /\ pc' = "prune sizes"
    /\ UNCHANGED <<inputs, fs, pruneVars, trace, fileChecksumIndex,
                   duplicateFiles, pathIndex, unhashed, sizeIndexBeforePrune,
                   checksumIndexBeforePrune>>

\* ProcessPath calls a method of a nil os.FileInfo: the run ends with the
\* panic of the Go runtime (exit status 2)
ScanPanics ==
    /\ pc = "scan"
    /\ pathIndex <= Len(appConfig.Paths)
    /\ \E r \in ScanResults :
         /\ r.err = "panic"
         /\ output' = Append(output,
               Line("panic: nil pointer dereference", pathIndex, r.err,
                    r.site))
    /\ pc' = "exit 2"
    /\ UNCHANGED <<inputs, fs, pruneVars, trace, reportVars>>

\* NewFileSizeIndex returns the combined index
ScanEnds ==
    /\ pc = "scan"
    /\ pathIndex > Len(appConfig.Paths)
    /\ pc' = "prune sizes"
    /\ UNCHANGED <<inputs, fs, pruneVars, output, trace, reportVars>>

\* combinedFileSizeIndex.PruneFileSizeIndex(FileDuplicatesThreshold)
PruneSizes ==
    /\ pc = "prune sizes"
    /\ sizeIndexBeforePrune' = combinedFileSizeIndex
    /\ \E pruned \in {PruneFileSizeIndex(combinedFileSizeIndex,
                                        appConfig.FileDuplicatesThreshold)} :
         /\ combinedFileSizeIndex' = pruned
         /\ unhashed' = DOMAIN pruned
    /\ pc' = "hash"
    /\ UNCHANGED <<inputs, fs, pruneVars, output, trace, fileChecksumIndex,
                   duplicateFiles, pathIndex, checksumIndexBeforePrune>>

\* the outcomes of FileMatches.UpdateChecksums for the set of size key
HashResults(key) ==
    {UpdateChecksums(fs, combinedFileSizeIndex[key], appConfig.IgnoreErrors,
                     fails) :
        fails \in SUBSET {i \in 1..Len(combinedFileSizeIndex[key]) :
                            combinedFileSizeIndex[key][i].FullPath
                               \in Fragile(GOOS)}}

\* the calls of GenerateCheckSum of one outcome, in order
HashAttempts(r) ==
    [i \in 1..Cardinality(r.called) |->
        Attempt("hash", r.fileMatches[i].FullPath,
                IF r.fileMatches[i].Checksum = <<>> THEN "checksum error"
                ELSE "",
                <<>>, FALSE, <<>>)]

\* FileSizeIndex.UpdateChecksums: the range loop reaches one more set, which
\* is hashed without an error that is returned
HashSet ==
    /\ pc = "hash"
    /\ \E key \in unhashed :
         /\ \E r \in HashResults(key) :
               /\ r.err = ""
               /\ combinedFileSizeIndex' =
                     [combinedFileSizeIndex EXCEPT ![key] = r.fileMatches]
               /\ trace' = trace \o HashAttempts(r)
         /\ unhashed' = unhashed \ {key}
    /\ UNCHANGED <<inputs, fs, pruneVars, pc, output, fileChecksumIndex,
                   duplicateFiles, pathIndex, sizeIndexBeforePrune,
                   checksumIndexBeforePrune>>

\* UpdateChecksums returns an error (IgnoreErrors not set): os.Exit(1)
HashFatal ==
    /\ pc = "hash"
    /\ \E key \in unhashed :
         \E r \in HashResults(key) :
            /\ r.err # ""
            /\ combinedFileSizeIndex' =
                  [combinedFileSizeIndex EXCEPT ![key] = r.fileMatches]
            /\ trace' = trace \o HashAttempts(r)
    /\ output' = Append(output,
          Line("Exiting; error encountered, option to ignore (minor) errors not provided.",
               0, "", <<>>))
    /\ pc' = "exit 1"
    /\ UNCHANGED <<inputs, fs, pruneVars, fileChecksumIndex, duplicateFiles,
                   pathIndex, unhashed, sizeIndexBeforePrune,
                   checksumIndexBeforePrune>>

\* UpdateChecksums returns nil
HashEnds ==
    /\ pc = "hash"
    /\ unhashed = {}
    /\ pc' = "index"
    /\ UNCHANGED <<inputs, fs, pruneVars, output, trace, reportVars>>

\* fileChecksumIndex := matches.NewFileChecksumIndex(combinedFileSizeIndex)
BuildChecksumIndex ==
    /\ pc = "index"
    /\ \E order \in KeyOrders(DOMAIN combinedFileSizeIndex) :
         fileChecksumIndex' = NewFileChecksumIndex(combinedFileSizeIndex, order)
    /\ pc' = "prune checksums"
    /\ UNCHANGED <<inputs, fs, pruneVars, output, trace,
                   combinedFileSizeIndex, duplicateFiles, pathIndex, unhashed,
                   sizeIndexBeforePrune, checksumIndexBeforePrune>>

\* fileChecksumIndex.PruneFileChecksumIndex(FileDuplicatesThreshold)
PruneChecksums ==
    /\ pc = "prune checksums"
    /\ checksumIndexBeforePrune' = fileChecksumIndex
    /\ fileChecksumIndex' =
          PruneFileChecksumIndex(fileChecksumIndex,
                                 appConfig.FileDuplicatesThreshold)
    /\ pc' = "summary"
    /\ UNCHANGED <<inputs, fs, pruneVars, output, trace,
                   combinedFileSizeIndex, duplicateFiles, pathIndex, unhashed,
                   sizeIndexBeforePrune>>

\* the summary is built and printed
Summary ==
    /\ pc = "summary"
    /\ \E summary \in {DuplicateFilesSummary(combinedFileSizeIndex,
                                            fileChecksumIndex)} :
         /\ duplicateFiles' = summary
         /\ output' = Append(output,
               Line("summary", summary.DuplicateCount,
                    ByteCountIEC(summary.WastedSpace),
                    <<summary.TotalEvaluatedFiles, summary.FileSizeMatchSets,
                      summary.FileHashMatchSets, summary.FileSizeMatches,
                      summary.FileHashMatches>>))
    /\ pc' = "write"
    /\ UNCHANGED <<inputs, fs, pruneVars, trace, combinedFileSizeIndex,
                   fileChecksumIndex, pathIndex, unhashed,
                   sizeIndexBeforePrune, checksumIndexBeforePrune>>

\* WriteFileMatchesCSV succeeds: the header row and one row per file
WriteCSVDone ==
    /\ pc = "write"
    /\ PathExists(fs, Dir(GOOS, Clean(GOOS, appConfig.OutputCSVFile)))
    /\ \E order \in KeyOrders(DOMAIN fileChecksumIndex) :
         csvFile' = <<GenerateCSVHeaderRow>>
                    \o CSVDataRows(fileChecksumIndex, order,
                                   appConfig.BlankLineBetweenSets)
    /\ output' = Append(output,
          Line("Successfully created CSV file", 0, "", <<>>))
    /\ pc' = "exit 0"
    /\ UNCHANGED <<GOOS, appConfig, fs, pruneVars, trace, reportVars>>

\* WriteFileMatchesCSV returns an error (the directory is gone, os.Create
\* or the final Sync fails): log.Fatal
WriteCSVFatal ==
    /\ pc = "write"
    /\ output' = Append(output, Line("failed to write CSV file", 0, "", <<>>))
    /\ pc' = "exit 1"
    /\ UNCHANGED <<inputs, fs, pruneVars, trace, reportVars>>

ReportNext ==
    \/ ScanPath
    \/ ScanFatal
    \/ ScanErrorIgnored
    \/ ScanPanics
    \/ ScanEnds
    \/ PruneSizes
    \/ HashSet
    \/ HashFatal
    \/ HashEnds
    \/ BuildChecksumIndex
    \/ PruneChecksums
    \/ Summary
    \/ WriteCSVDone
    \/ WriteCSVFatal

ReportSpec == ReportInit /\ [][ReportNext]_vars

----------------------------------------------------------------------------
(* the CSV file between the two subcommands: encoding/csv as                *)
(* WriteFileMatchesCSV and pruneSubcommand use it                           *)

\* unicode.IsSpace for the characters of the model
IsSpace(ch) == ch \in {" ", "\t", "\n", "\r"}

\* csv.Writer.fieldNeedsQuotes with the comma as the separator
FieldNeedsQuotes(field) ==
    /\ field # <<>>
    /\ \/ field = <<"\\", ".">>
       \/ \E i \in 1..Len(field) : field[i] \in {",", "\"", "\r", "\n"}
       \/ IsSpace(field[1])

\* the inside of a quoted field: every quote doubled (UseCRLF is false)
RECURSIVE QuotedText(_)
QuotedText(field) ==
    IF field = <<>> THEN <<>>
    ELSE (IF Head(field) = "\"" THEN <<"\"", "\"">> ELSE <<Head(field)>>)
         \o QuotedText(Tail(field))

WriteField(field) ==
    IF FieldNeedsQuotes(field)
    THEN <<"\"">> \o QuotedText(field) \o <<"\"">>
    ELSE field

\* csv.Writer.Write: the fields with commas between them, then a newline
RECURSIVE WriteFields(_)
WriteFields(record) ==
    IF record = <<>> THEN <<>>
    ELSE IF Len(record) = 1 THEN WriteField(record[1])
    ELSE WriteField(Head(record)) \o <<",">> \o WriteFields(Tail(record))

WriteRecord(record) == WriteFields(record) \o <<"\n">>

\* the text of a file to which the records were written in turn
RECURSIVE WriteRecords(_)
WriteRecords(records) ==
    IF records = <<>> THEN <<>>
    ELSE WriteRecord(Head(records)) \o WriteRecords(Tail(records))

\* bytes.Index...: the first position of t with one of the characters, 0
\* when there is none
IndexAny(t, chars) ==
    IF \E i \in 1..Len(t) : t[i] \in chars
    THEN CHOOSE i \in 1..Len(t) :
            /\ t[i] \in chars
            /\ \A j \in 1..(i - 1) : t[j] \notin chars
    ELSE 0

\* the text after the end of the line t begins with
AfterLine(t) ==
    IF IndexAny(t, {"\n"}) = 0 THEN <<>>
    ELSE SubSeq(t, IndexAny(t, {"\n"}) + 1, Len(t))

\* TrimLeadingSpace: the white space at the start of a field is dropped,
\* up to the end of the line
RECURSIVE DropLeadingSpace(_)
DropLeadingSpace(t) ==
    IF t # <<>> /\ IsSpace(Head(t)) /\ Head(t) # "\n"
    THEN DropLeadingSpace(Tail(t))
    ELSE t

\* csv.Reader.readRecord, the parseField loop: t is the text not read yet,
\* record the fields of the record read so far. The result is the error
\* ("" if none), the record and the text after the record.
RECURSIVE ParseField(_, _), ParseQuoted(_, _, _)
ParseField(t, record) ==
    LET line == DropLeadingSpace(t)
        i == IndexAny(line, {",", "\n"})
        field == IF i = 0 THEN line ELSE SubSeq(line, 1, i - 1)
        after == IF i = 0 THEN <<>> ELSE SubSeq(line, i + 1, Len(line))
    IN  IF line # <<>> /\ Head(line) = "\""
        THEN ParseQuoted(Tail(line), <<>>, record)
        ELSE IF \E j \in 1..Len(field) : field[j] = "\""
        THEN [err |-> "bare quote in non-quoted field", record |-> <<>>,
              rest |-> AfterLine(line)]
        ELSE IF i # 0 /\ line[i] = ","
        THEN ParseField(after, Append(record, field))
        ELSE [err |-> "", record |-> Append(record, field), rest |-> after]

\* the quoted field: up to the quote that is not doubled, over the ends of
\* lines; after it a comma, the end of the line or the end of the file
ParseQuoted(t, field, record) ==
    LET i == IndexAny(t, {"\""})
        sofar == field \o SubSeq(t, 1, i - 1)
        after == SubSeq(t, i + 1, Len(t))
    IN  IF i = 0
        THEN [err |-> "extraneous or missing quote in quoted field",
              record |-> <<>>, rest |-> <<>>]
        ELSE IF after # <<>> /\ Head(after) = "\""
        THEN ParseQuoted(Tail(after), Append(sofar, "\""), record)
        ELSE IF after # <<>> /\ Head(after) = ","
        THEN ParseField(Tail(after), Append(record, sofar))
        ELSE IF after = <<>> \/ Head(after) = "\n"
        THEN [err |-> "", record |-> Append(record, sofar),
              rest |-> IF after = <<>> THEN <<>> ELSE Tail(after)]
        ELSE [err |-> "extraneous or missing quote in quoted field",
              record |-> <<>>, rest |-> AfterLine(after)]

\* the empty lines before a record are skipped
RECURSIVE SkipEmptyLines(_)
SkipEmptyLines(t) ==
    IF t # <<>> /\ Head(t) = "\n" THEN SkipEmptyLines(Tail(t)) ELSE t

\* csv.Reader.Read of the text t: the next record, with ErrFieldCount when
\* it has not fieldsPerRecord fields
ReadRecord(t, fieldsPerRecord) ==
    LET r == ParseField(SkipEmptyLines(t), <<>>)
    IN  IF r.err = "" /\ Len(r.record) # fieldsPerRecord
        THEN [r EXCEPT !.err = "wrong number of fields"]
        ELSE r

\* What the calls of csvReader.Read return until io.EOF: the records, the
\* nil record for a line that could not be parsed. Nothing is read after an
\* error, the caller has left by then.
RECURSIVE ReadRecords(_, _)
ReadRecords(t, fieldsPerRecord) ==
    IF SkipEmptyLines(t) = <<>> THEN <<>>
    ELSE LET r == ReadRecord(t, fieldsPerRecord)
         IN  IF r.err # "" THEN <<r.record>>
             ELSE <<r.record>> \o ReadRecords(r.rest, fieldsPerRecord)

----------------------------------------------------------------------------
(* a report written by the report subcommand and read by prune             *)

\* Largest number of files in the duplicate set of the report.
MaxMatches == 2

\* The names of the files of the set: plain, with a space inside, with a
\* comma, with a space in front and, where the platform has such names,
\* with a space at the end and with a quote.
MatchNames(os) ==
    { <<"f">>, <<"f", " ", "g">>, <<"f", ",", "g">>, <<" ", "f">> }
    \cup (IF os = "windows" THEN {}
          ELSE { <<"f", " ">>, <<"f", "\"", "g">> })

\* the disk with a file of each name in /a, all of one content
AllNamesDisk(os) ==
    [files |-> [p \in {Join(os, MkPath(os, <<"a">>), name) :
                          name \in MatchNames(os)} |-> ContentX],
     dirs  |-> {Root(os), MkPath(os, <<"a">>), BackupRoot(os)}]

\* the FileMatch of a file of that disk, with its checksum set
HashedMatch(os, name) ==
    [FileMatch(os, AllNamesDisk(os), Join(os, MkPath(os, <<"a">>), name),
               MkPath(os, <<"a">>))
        EXCEPT !.Checksum = GenerateCheckSum(ContentX)]

\* the checksum indexes of one duplicate set of 2..MaxMatches of the files
MatchIndexes(os) ==
    { (GenerateCheckSum(ContentX) :>
          [i \in 1..Len(names) |-> HashedMatch(os, names[i])]) :
         names \in UNION { {q \in [1..n -> MatchNames(os)] :
                              \A i, j \in 1..n : i # j => q[i] # q[j]} :
                           n \in 2..MaxMatches } }

\* the disk the index was made of: the files of its FileMatch values
MatchDisk(os, index) ==
    [files |-> [p \in UNION { {index[c][i].FullPath :
                                  i \in 1..Len(index[c])} :
                               c \in DOMAIN index } |-> ContentX],
     dirs  |-> AllNamesDisk(os).dirs]

CodecConfigs(os) ==
    [IgnoreErrors : BOOLEAN, UseFirstRow : {FALSE},
     BlankLineBetweenSets : BOOLEAN,
     OutputCSVFile : {Join(os, BackupRoot(os), <<"r">>)}]

CodecInit ==
    /\ GOOS \in Platforms
    /\ appConfig \in CodecConfigs(GOOS)
    /\ fileChecksumIndex \in MatchIndexes(GOOS)
    /\ csvFile = <<>>
    /\ fs = MatchDisk(GOOS, fileChecksumIndex)
    /\ fsAtStart = MatchDisk(GOOS, fileChecksumIndex)
    /\ pc = "write"
    /\ rowCounter = 0
    /\ dfsEntries = <<>>
    /\ filesToRemove = <<>>
    /\ idx = 1
    /\ filesRemovedSuccess = 0
    /\ filesRemovedFail = 0
    /\ output = <<>>
    /\ trace = <<>>
    /\ run = 1
    /\ prevOutput = <<>>
    /\ combinedFileSizeIndex = EmptyIndex
    /\ duplicateFiles = NoSummary
    /\ pathIndex = 1
    /\ unhashed = {}
    /\ sizeIndexBeforePrune = EmptyIndex
    /\ checksumIndexBeforePrune = EmptyIndex

\* WriteFileMatchesCSV: the header row and the rows of the index go through
\* the csv.Writer into the file
WriteFileMatchesCSV ==
    /\ pc = "write"
    /\ \E order \in KeyOrders(DOMAIN fileChecksumIndex) :
         fs' = [fs EXCEPT !.files =
                  (appConfig.OutputCSVFile :>
                      WriteRecords(<<GenerateCSVHeaderRow>>
                          \o CSVDataRows(fileChecksumIndex, order,
                                         appConfig.BlankLineBetweenSets)))
                  @@ @]
    /\ fsAtStart' = fs'
    /\ pc' = "open"
    /\ UNCHANGED <<inputs, reportVars, rowCounter, dfsEntries, filesToRemove,
                   idx, counters, output, trace, runs>>

\* pruneSubcommand opens the file the report subcommand wrote; csvFile is
\* what its csv.Reader, with FieldsPerRecord and TrimLeadingSpace set,
\* returns record by record
OpenInputCSVFile ==
    /\ pc = "open"
    /\ csvFile' = ReadRecords(fs.files[appConfig.OutputCSVFile],
                              InputCSVFieldCount)
    /\ pc' = "read"
    /\ UNCHANGED <<GOOS, appConfig, reportVars, disks, rowCounter, dfsEntries,
                   filesToRemove, idx, counters, output, trace, runs>>

CodecNext ==
    \/ WriteFileMatchesCSV
    \/ OpenInputCSVFile
    \/ ReadEOF
    \/ SkipFirstRow
    \/ RowAccepted
    \/ RowIgnored
    \/ RowFatal

CodecSpec == CodecInit /\ [][CodecNext]_vars

----------------------------------------------------------------------------
(* what the claims speak about                                             *)

\* the data rows read so far in this run
RowsRead == 2..(IF rowCounter < Len(csvFile) THEN rowCounter ELSE Len(csvFile))

\* the result of the read loop for row n on the filesystem of the run start
Outcome(n) == ProcessRow(GOOS, fsAtStart, csvFile[n])

\* The recorded checksum of row n equals the digest of the content its file
\* had when the run started.
ChecksumMatches(n) ==
    LET e == ParseInputRow(csvFile[n], InputCSVFieldCount).entry
    IN  /\ ParseInputRow(csvFile[n], InputCSVFieldCount).err = ""
        /\ FullPath(GOOS, e) \in DOMAIN fsAtStart.files
        /\ e.Checksum = GenerateCheckSum(fsAtStart.files[FullPath(GOOS, e)])

\* The file of row n exists at the run start with another content than the
\* one the row's checksum was recorded for.
ChecksumMismatches(n) ==
    LET e == ParseInputRow(csvFile[n], InputCSVFieldCount).entry
    IN  /\ ParseInputRow(csvFile[n], InputCSVFieldCount).err = ""
        /\ FullPath(GOOS, e) \in DOMAIN fsAtStart.files
        /\ e.Checksum # GenerateCheckSum(fsAtStart.files[FullPath(GOOS, e)])

RowFlagged(n) ==
    /\ ParseInputRow(csvFile[n], InputCSVFieldCount).err = ""
    /\ ParseInputRow(csvFile[n], InputCSVFieldCount).entry.RemoveFile

RowPath(n) ==
    FullPath(GOOS, ParseInputRow(csvFile[n], InputCSVFieldCount).entry)

\* files of the run start that are gone, and files that are new or changed
Removed == DOMAIN fsAtStart.files \ DOMAIN fs.files
Written ==
    {p \in DOMAIN fs.files :
        p \notin DOMAIN fsAtStart.files \/ fs.files[p] # fsAtStart.files[p]}

IsPrefix(a, b) == Len(a) <= Len(b) /\ SubSeq(b, 1, Len(a)) = a

\* row n was read by this run and accepted into dfsEntries
Accepted(n) ==
    /\ n \in RowsRead
    /\ Outcome(n).stage = ""
    /\ \E j \in 1..Len(dfsEntries) : dfsEntries[j] = Outcome(n).entry

DiskUntouched == fs = fsAtStart /\ trace = <<>>

LastLine == output[Len(output)]

\* What the helpers above say of one row, from its parsed form, its outcome
\* and its path
RowFactsFrom(parsed, out, path) ==
    [path       |-> path,
     checksum   |-> parsed.entry.Checksum,
     flagged    |-> parsed.err = "" /\ parsed.entry.RemoveFile,
     matches    |-> /\ parsed.err = ""
                    /\ path \in DOMAIN fsAtStart.files
                    /\ parsed.entry.Checksum =
                         GenerateCheckSum(fsAtStart.files[path]),
     mismatches |-> /\ parsed.err = ""
                    /\ path \in DOMAIN fsAtStart.files
                    /\ parsed.entry.Checksum #
                         GenerateCheckSum(fsAtStart.files[path]),
     out        |-> out,
     accepted   |-> /\ out.stage = ""
                    /\ \E j \in 1..Len(dfsEntries) : dfsEntries[j] = out.entry]

RowFacts(n) ==
    CHOOSE r \in
        UNION { { RowFactsFrom(parsed, out, path) :
                    out \in {Outcome(n)},
                    path \in {FullPath(GOOS, parsed.entry)} } :
                parsed \in {ParseInputRow(csvFile[n], InputCSVFieldCount)} } :
        TRUE

\* the facts of the rows read so far
RowTable == [n \in RowsRead |-> RowFacts(n)]

----------------------------------------------------------------------------
(* C1: a file is removed or backed up by a run only if a row naming it      *)
(* passed validation in that run with the digest of the file's content     *)
(* equal to the row's checksum; a row whose checksum does not match the    *)
(* live file is rejected, whatever IgnoreErrors and the removal flag are,  *)
(* and never is the reason a file is removed or copied.                    *)
C1_VerifiedBeforeAction ==
    \A row \in {RowTable} :
        /\ \A p \in Removed :
             \E n \in RowsRead :
                row[n].path = p /\ row[n].matches /\ row[n].accepted
        /\ \A q \in Written :
             \E n \in RowsRead :
                /\ row[n].matches /\ row[n].accepted
                /\ IsPrefix(fs.files[q], fsAtStart.files[row[n].path])
        /\ \A i \in 1..Len(trace) :
             \E n \in RowsRead :
                /\ row[n].path = trace[i].file
                /\ row[n].matches /\ row[n].accepted
        /\ \A n \in RowsRead :
             row[n].mismatches =>
                /\ ~row[n].accepted
                /\ \A j \in 1..Len(dfsEntries) :
                      ~(/\ FullPath(GOOS, dfsEntries[j]) = row[n].path
                        /\ dfsEntries[j].Checksum = row[n].checksum)

\* a file was removed although another row of the report, flagged as well,
\* was rejected for its checksum
C1_Witness ==
    /\ \E i \in 1..Len(trace) : trace[i].op = "remove" /\ trace[i].err = ""
    /\ \E n \in RowsRead : ChecksumMismatches(n) /\ RowFlagged(n)
    /\ Removed # {}

----------------------------------------------------------------------------
(* C2: only accepted rows with the removal flag set are acted on: a file    *)
(* none of whose accepted rows is flagged is neither removed nor copied,   *)
(* and a run that read the whole report and found no accepted row flagged  *)
(* says "Nothing to do", exits 0 and leaves the filesystem as it was, also *)
(* with a backup directory configured.                                     *)
C2_OnlyFlaggedRows ==
    \A row \in {RowTable} :
        /\ \A i \in 1..Len(trace) :
             \E n \in RowsRead :
                /\ row[n].path = trace[i].file
                /\ row[n].flagged /\ row[n].accepted
        /\ \A p \in DOMAIN fsAtStart.files :
             (\A n \in RowsRead :
                 row[n].path = p /\ row[n].accepted => ~row[n].flagged)
                => p \in DOMAIN fs.files /\ fs.files[p] = fsAtStart.files[p]
        /\ (/\ rowCounter > Len(csvFile)
            /\ pc # "select"
            /\ \A n \in RowsRead : row[n].accepted => ~row[n].flagged)
             => /\ pc = "exit 0"
                /\ LastLine.msg = "Nothing to do, exiting."
                /\ DiskUntouched

\* A run without dry-run and with a backup directory accepted a row flagged
\* "false" and a blank one, and ended with nothing to do.
C2_Witness ==
    /\ pc = "exit 0"
    /\ ~appConfig.DryRun
    /\ appConfig.BackupDirectory # <<>>
    /\ Len(dfsEntries) = 2
    /\ \E n \in RowsRead : csvFile[n][6] = <<"false">>
    /\ \E n \in RowsRead : csvFile[n][6] = <<>>
    /\ LastLine.msg = "Nothing to do, exiting."

----------------------------------------------------------------------------
(* C3: with dry-run active no run changes the filesystem (no directory is   *)
(* created, no file copied, no file removed), and a second dry-run over    *)
(* the same report prints what the first one printed.                      *)
C3_DryRunLeavesDiskAlone ==
    appConfig.DryRun =>
        /\ fs = StartDisk(GOOS, csvFile)
        /\ DiskUntouched
        /\ (run > 1 /\ Exited => output = prevOutput)

\* the second of two dry-runs has listed the files it would remove
C3_Witness ==
    /\ appConfig.DryRun
    /\ appConfig.BackupDirectory # <<>>
    /\ run = 2
    /\ pc = "exit 0"
    /\ Len(filesToRemove) = 2
    /\ output = prevOutput

----------------------------------------------------------------------------
(* C4: with a backup directory and without dry-run, a file removed by the   *)
(* run was backed up before by the same run, and the complete copy exists  *)
(* at the backup destination; a file whose backup failed is not removed.   *)
C4_BackupBeforeRemoval ==
    (~appConfig.DryRun /\ appConfig.BackupDirectory # <<>>) =>
        /\ \A i \in 1..Len(trace) :
             (trace[i].op = "remove" /\ trace[i].err = "") =>
                \E j \in 1..(i - 1) :
                   /\ trace[j].op = "backup"
                   /\ trace[j].file = trace[i].file
                   /\ trace[j].err = ""
                   /\ trace[j].dest \in DOMAIN fs.files
                   /\ fs.files[trace[j].dest] = fsAtStart.files[trace[i].file]
        /\ \A p \in Removed :
             \E q \in DOMAIN fs.files \ DOMAIN fsAtStart.files :
                fs.files[q] = fsAtStart.files[p]
        /\ \A j \in 1..Len(trace) :
             (trace[j].op = "backup" /\ trace[j].err # "") =>
                /\ trace[j].file \in DOMAIN fs.files
                /\ j = Len(trace)
                /\ pc = "exit 1"

\* both flagged files were backed up and then removed
C4_Witness ==
    /\ appConfig.BackupDirectory # <<>>
    /\ Len(trace) = 4
    /\ trace[2].op = "backup" /\ trace[2].err = ""
    /\ trace[4].op = "remove" /\ trace[4].err = ""
    /\ Cardinality(Removed) = 2

----------------------------------------------------------------------------
(* C5: when something exists at the backup destination of a file, the       *)
(* backup of that file fails with an error, what was at the destination is *)
(* left as it was, and the source file is not removed.                     *)
C5_NoOverwrite ==
    \A j \in 1..Len(trace) :
        (trace[j].op = "backup" /\ trace[j].existed) =>
            /\ trace[j].err = "destination file already exists"
            /\ trace[j].dest \in DOMAIN fs.files
            /\ fs.files[trace[j].dest] = trace[j].was
            /\ trace[j].file \in DOMAIN fs.files
            /\ fs.files[trace[j].file] = fsAtStart.files[trace[j].file]
            /\ \A i \in 1..Len(trace) :
                  ~(trace[i].op = "remove" /\ trace[i].file = trace[j].file)
            /\ pc = "exit 1"

\* the backup of a file met a destination that holds another content
C5_Witness ==
    \E j \in 1..Len(trace) :
        /\ trace[j].op = "backup"
        /\ trace[j].existed
        /\ trace[j].was # fs.files[trace[j].file]
        /\ trace[j].was # <<>>

----------------------------------------------------------------------------
(* C6: the backup of a file goes below the backup directory into the        *)
(* directory path of the file without its volume prefix, so that files of  *)
(* the same name from different directories get different destinations    *)
(* and their backups do not collide.                                       *)

\* the path of file below the backup directory that mirrors its own path
Mirror(os, backupDirectory, file) ==
    Join(os, backupDirectory, SubSeq(file, Len(Root(os)) + 1, Len(file)))

C6_BackupMirrorsDirectories ==
    \A i \in 1..Len(trace) :
        (trace[i].op = "backup" /\ trace[i].dest # <<>>) =>
            /\ trace[i].dest =
                 Mirror(GOOS, appConfig.BackupDirectory, trace[i].file)
            /\ \A j \in 1..Len(trace) :
                  (trace[j].op = "backup" /\ trace[j].file # trace[i].file)
                     => trace[j].dest # trace[i].dest

----------------------------------------------------------------------------
(* C7: without IgnoreErrors, a run that reads a flagged row whose file has  *)
(* changed since the report was written reports that row as rejected and  *)
(* exits with status 1 at that row; the file stays on disk and the run has *)
(* removed and backed up nothing.                                          *)
C7_MismatchAbortsStrictRun ==
    \A n \in RowsRead :
        (~appConfig.IgnoreErrors /\ ChecksumMismatches(n) /\ RowFlagged(n)) =>
            /\ pc = "exit 1"
            /\ rowCounter = n
            /\ LastLine = Line("IgnoringErrors NOT set. Exiting.", n,
                               "checksum validation failed", <<>>)
            /\ RowPath(n) \in DOMAIN fs.files
            /\ DiskUntouched

\* the second data row is the one that changed; the first, flagged as well,
\* was accepted
C7_Witness ==
    /\ ~appConfig.IgnoreErrors
    /\ Len(csvFile) = 3
    /\ rowCounter = 3
    /\ Len(dfsEntries) = 1
    /\ dfsEntries[1].RemoveFile
    /\ ChecksumMismatches(3)
    /\ RowFlagged(3)
    /\ pc = "exit 1"

----------------------------------------------------------------------------
(* C8: with IgnoreErrors and a report whose rows all have six columns,     *)
(* a row that validation rejects (directory or file                        *)
(* missing, checksum mismatch) is logged and skipped and its file is left  *)
(* alone; the run goes on to the end of the report, every row is           *)
(* validated, and when every removal succeeds the files of the accepted    *)
(* flagged rows are gone.                                                  *)

\* the entries of the accepted rows among rows 2..n, in order
RECURSIVE AcceptedEntries(_, _)
AcceptedEntries(row, n) ==
    IF n < 2 THEN <<>>
    ELSE AcceptedEntries(row, n - 1) \o
         (IF row[n].out.stage = "" THEN <<row[n].out.entry>> ELSE <<>>)

\* every row of the report has the six columns, so that csvReader.Read
\* hands every row to the read loop
EveryRowIsARecord ==
    \A n \in 1..Len(csvFile) : Len(csvFile[n]) = InputCSVFieldCount

LastRowRead == IF rowCounter < Len(csvFile) THEN rowCounter ELSE Len(csvFile)

C8_RejectedRowSkippedRunGoesOn ==
    (appConfig.IgnoreErrors /\ EveryRowIsARecord) =>
        \A row \in {RowTable} :
            /\ pc # "read" => rowCounter = Len(csvFile) + 1
            /\ dfsEntries = AcceptedEntries(row, LastRowRead)
            /\ \A n \in RowsRead :
                 row[n].out.stage # "" =>
                    /\ \E k \in 1..Len(output) :
                          output[k] = Line("ignoring input row", n,
                                           row[n].out.err, <<>>)
                    /\ (\A m \in RowsRead : row[m].path = row[n].path
                                              => row[m].out.stage # "")
                          => /\ \A i \in 1..Len(trace) :
                                   trace[i].file # row[n].path
                             /\ row[n].path \in DOMAIN fsAtStart.files
                                   => /\ row[n].path \in DOMAIN fs.files
                                      /\ fs.files[row[n].path] =
                                            fsAtStart.files[row[n].path]
            /\ (pc = "exit 0" /\ ~appConfig.DryRun /\ filesRemovedFail = 0) =>
                 \A n \in RowsRead :
                    (row[n].accepted /\ row[n].flagged)
                       => row[n].path \notin DOMAIN fs.files

\* the first data row, flagged, was rejected for its checksum and its file
\* is still there; the file of the row after it was removed
C8_Witness ==
    /\ appConfig.IgnoreErrors
    /\ pc = "exit 0"
    /\ Len(csvFile) = 3
    /\ ChecksumMismatches(2) /\ RowFlagged(2)
    /\ RowPath(2) \in DOMAIN fs.files
    /\ Accepted(3) /\ RowFlagged(3)
    /\ RowPath(3) \in Removed

----------------------------------------------------------------------------
(* C9: a failed backup is gated by IgnoreErrors: with the flag set the      *)
(* file is skipped and the run goes on with the remaining flagged files,   *)
(* without it the first backup failure ends the run.                       *)
C9_BackupFailureGated ==
    \A j \in 1..Len(trace) :
        (trace[j].op = "backup" /\ trace[j].err # "") =>
            IF appConfig.IgnoreErrors
            THEN ~(pc = "exit 1" /\ j = Len(trace))
            ELSE pc = "exit 1" /\ j = Len(trace)

----------------------------------------------------------------------------
(* C10: in the removal loop every failure is counted and, with              *)
(* IgnoreErrors, every flagged file is still attempted; without            *)
(* IgnoreErrors the first failure ends the run and no flagged file after   *)
(* it in the list is removed.                                              *)
IsRemoval(a) == a.op = "remove"
IsFailedRemoval(a) == a.op = "remove" /\ a.err # ""
IsSuccessfulRemoval(a) == a.op = "remove" /\ a.err = ""

----------------------------------------------------------------------------
(* C11: a run that has read the whole report prints the tally of            *)
(* succeeded and failed removals before the process ends, also when it     *)
(* ends on a fatal error.                                                  *)
C11_TallyAlwaysPrinted ==
    (pc \in {"exit 0", "exit 1"} /\ rowCounter > Len(csvFile)) =>
        \E k \in 1..Len(output) :
            output[k].msg = "File removal: success, fail"

----------------------------------------------------------------------------
(* C12: when an earlier run has removed a file, a later run on the same     *)
(* report rejects every row that names it at the file-existence check,     *)
(* logs the rejection and neither removes nor copies anything for it.      *)
C12_SecondRunRejectsRemovedFile ==
    \A row \in {RowTable} :
        \A n \in RowsRead :
            (/\ row[n].path \in DOMAIN InitialFiles(GOOS)
             /\ row[n].path \notin DOMAIN fsAtStart.files) =>
                /\ row[n].out.stage = "validating"
                /\ row[n].out.err = "invalid path to file"
                /\ ~row[n].accepted
                /\ \E k \in 1..Len(output) :
                      output[k] =
                         Line(IF appConfig.IgnoreErrors
                              THEN "ignoring input row"
                              ELSE "IgnoringErrors NOT set. Exiting.",
                              n, "invalid path to file", <<>>)
                /\ \A i \in 1..Len(trace) : trace[i].file # row[n].path
                /\ row[n].path \notin DOMAIN fs.files

\* the second run has read a flagged row whose file the first run removed
C12_Witness ==
    /\ run = 2
    /\ pc \in {"exit 0", "exit 1"}
    /\ \E n \in RowsRead :
          /\ RowFlagged(n)
          /\ RowPath(n) \in DOMAIN InitialFiles(GOOS)
          /\ RowPath(n) \notin DOMAIN fsAtStart.files

----------------------------------------------------------------------------
(* claims about the report subcommand (ReportSpec)                         *)

\* how far the report run has come
SizesPruned ==
    \/ pc \in {"hash", "index", "prune checksums", "summary", "write",
               "exit 0"}
    \/ pc = "exit 1" /\ LastLine.msg # "Failed to build file size index"

ChecksumsPruned ==
    \/ pc \in {"summary", "write", "exit 0"}
    \/ pc = "exit 1" /\ LastLine.msg = "failed to write CSV file"

Summarised ==
    \/ pc \in {"write", "exit 0"}
    \/ pc = "exit 1" /\ LastLine.msg = "failed to write CSV file"

\* the FileMatch values of an index, as a set of <<key, position>> pairs
Members(index) ==
    UNION {{<<key, i>> : i \in 1..Len(index[key])} : key \in DOMAIN index}

\* C13: no FileMatch with an empty checksum is in the checksum index, also
\* when IgnoreErrors is set and the digest of a file could not be computed.
C13_NoUnsetChecksumIndexed ==
    \A m \in Members(fileChecksumIndex) :
        /\ m[1] # <<>>
        /\ fileChecksumIndex[m[1]][m[2]].Checksum # <<>>

\* C14: in the pruned checksum index the files of one set have the same
\* content, the same size and the same checksum, which is not empty.
C14_SetsAreTrueDuplicates ==
    ChecksumsPruned =>
        \A key \in DOMAIN fileChecksumIndex :
            \A i, j \in 1..Len(fileChecksumIndex[key]) :
                LET a == fileChecksumIndex[key][i]
                    b == fileChecksumIndex[key][j]
                IN  /\ fs.files[a.FullPath] = fs.files[b.FullPath]
                    /\ a.Size = b.Size
                    /\ a.Checksum = b.Checksum
                    /\ a.Checksum # <<>>

\* C15: a file on disk is at most once in the size index and at most once
\* in the checksum index, whatever paths are given.
C15_FileIndexedOnce ==
    /\ \A m, n \in Members(combinedFileSizeIndex) :
          combinedFileSizeIndex[m[1]][m[2]].FullPath =
             combinedFileSizeIndex[n[1]][n[2]].FullPath => m = n
    /\ \A m, n \in Members(fileChecksumIndex) :
          fileChecksumIndex[m[1]][m[2]].FullPath =
             fileChecksumIndex[n[1]][n[2]].FullPath => m = n

----------------------------------------------------------------------------
(* C16: after the size index has been pruned every FileMatch in it has a    *)
(* size (its real size, the key of its set) of at least the size threshold *)
(* and every set has at least duplicates-threshold members.                *)
C16_SizeIndexMeetsThresholds ==
    SizesPruned =>
        \A key \in DOMAIN combinedFileSizeIndex :
            /\ Len(combinedFileSizeIndex[key]) >=
                  appConfig.FileDuplicatesThreshold
            /\ \A i \in 1..Len(combinedFileSizeIndex[key]) :
                  LET file == combinedFileSizeIndex[key][i]
                  IN  /\ file.Size >= appConfig.FileSizeThreshold
                      /\ file.Size = key
                      /\ file.Size = Len(fs.files[file.FullPath])

\* all paths are scanned, a file on disk lies below the size threshold of
\* 3 and the pruned index still has a set
C16_Witness ==
    /\ SizesPruned
    /\ appConfig.FileSizeThreshold = 3
    /\ pathIndex > Len(appConfig.Paths)
    /\ \E p \in DOMAIN fs.files : Len(fs.files[p]) < 3
    /\ DOMAIN combinedFileSizeIndex # {}

----------------------------------------------------------------------------
(* C17: pruning an index deletes exactly the sets with fewer members than   *)
(* the threshold; the other sets stay with the same members in the same    *)
(* order, in the size index as in the checksum index.                      *)
C17_PrunerDeletesExactlySmallSets ==
    /\ SizesPruned =>
          /\ DOMAIN combinedFileSizeIndex =
                {key \in DOMAIN sizeIndexBeforePrune :
                    Len(sizeIndexBeforePrune[key]) >=
                       appConfig.FileDuplicatesThreshold}
          /\ \A key \in DOMAIN combinedFileSizeIndex :
                [i \in 1..Len(combinedFileSizeIndex[key]) |->
                    [combinedFileSizeIndex[key][i] EXCEPT !.Checksum = <<>>]]
                   = sizeIndexBeforePrune[key]
    /\ ChecksumsPruned =>
          /\ DOMAIN fileChecksumIndex =
                {key \in DOMAIN checksumIndexBeforePrune :
                    Len(checksumIndexBeforePrune[key]) >=
                       appConfig.FileDuplicatesThreshold}
          /\ \A key \in DOMAIN fileChecksumIndex :
                fileChecksumIndex[key] = checksumIndexBeforePrune[key]

\* both prunings deleted a set one member short of the threshold and kept
\* a set of exactly threshold members
C17_Witness ==
    /\ ChecksumsPruned
    /\ \E key \in DOMAIN sizeIndexBeforePrune \ DOMAIN combinedFileSizeIndex :
          Len(sizeIndexBeforePrune[key]) =
             appConfig.FileDuplicatesThreshold - 1
    /\ \E key \in DOMAIN checksumIndexBeforePrune \ DOMAIN fileChecksumIndex :
          Len(checksumIndexBeforePrune[key]) =
             appConfig.FileDuplicatesThreshold - 1
    /\ \E key \in DOMAIN fileChecksumIndex :
          Len(fileChecksumIndex[key]) = appConfig.FileDuplicatesThreshold

----------------------------------------------------------------------------
(* C18: GenerateCheckSum is called only after the size index has been       *)
(* pruned and only for a file of a set that is left in it, that is a file  *)
(* whose size at least duplicates-threshold scanned records share.         *)
C18_OnlySurvivorsHashed ==
    /\ trace # <<>> => SizesPruned
    /\ \A i \in 1..Len(trace) :
          trace[i].op = "hash" =>
             LET size == Len(fs.files[trace[i].file])
             IN  /\ size \in DOMAIN combinedFileSizeIndex
                 /\ \E j \in 1..Len(combinedFileSizeIndex[size]) :
                       combinedFileSizeIndex[size][j].FullPath = trace[i].file
                 /\ size \in DOMAIN sizeIndexBeforePrune
                 /\ Len(sizeIndexBeforePrune[size]) >=
                       appConfig.FileDuplicatesThreshold

\* files were hashed, and a scanned file of a size of its own was not
C18_Witness ==
    /\ pc = "exit 0"
    /\ trace # <<>>
    /\ \E key \in DOMAIN sizeIndexBeforePrune \ DOMAIN combinedFileSizeIndex :
          \A i \in 1..Len(trace) :
             trace[i].file # sizeIndexBeforePrune[key][1].FullPath

----------------------------------------------------------------------------
(* C19: the wasted space of the summary is the sum over the sets of the     *)
(* pruned checksum index of (members - 1) times the size of the set's      *)
(* files (the first member's, as the code takes it), the duplicate count   *)
(* is the sum of (members - 1); both are printed.                          *)
RECURSIVE ExpectedWaste(_, _)
ExpectedWaste(index, keys) ==
    IF keys = {} THEN 0
    ELSE LET key == CHOOSE k \in keys : TRUE
         IN  (Len(index[key]) - 1) * Len(fs.files[index[key][1].FullPath])
             + ExpectedWaste(index, keys \ {key})

RECURSIVE ExpectedDuplicates(_, _)
ExpectedDuplicates(index, keys) ==
    IF keys = {} THEN 0
    ELSE LET key == CHOOSE k \in keys : TRUE
         IN  (Len(index[key]) - 1) + ExpectedDuplicates(index, keys \ {key})

C19_WastedSpaceAndDuplicateCount ==
    Summarised =>
        /\ duplicateFiles.WastedSpace =
              ExpectedWaste(fileChecksumIndex, DOMAIN fileChecksumIndex)
        /\ duplicateFiles.DuplicateCount =
              ExpectedDuplicates(fileChecksumIndex, DOMAIN fileChecksumIndex)
        /\ \E k \in 1..Len(output) :
              /\ output[k].msg = "summary"
              /\ output[k].n = duplicateFiles.DuplicateCount
              /\ output[k].detail = ByteCountIEC(duplicateFiles.WastedSpace)

\* one set of three files of a hundred bytes: two duplicates, 200 bytes
C19_Witness ==
    /\ pc = "exit 0"
    /\ Cardinality(DOMAIN fileChecksumIndex) = 1
    /\ \A key \in DOMAIN fileChecksumIndex :
          /\ Len(fileChecksumIndex[key]) = 3
          /\ \A i \in 1..3 : fileChecksumIndex[key][i].Size = 100
    /\ duplicateFiles.DuplicateCount = 2
    /\ duplicateFiles.WastedSpace = 200

----------------------------------------------------------------------------
(* C20: /a/f and /a/g of a hundred equal bytes and /a/s/f of a hundred      *)
(* bytes that differ, scanned recursively from /a with the duplicates      *)
(* threshold 2 and without an error: the size index is one set of 3 before *)
(* hashing, the pruned checksum index is one set with /a/f and /a/g, and   *)
(* the summary has 1 duplicate file and 100 bytes of wasted space.         *)
ThreeFilesScenario ==
    /\ fs.files = (MkPath(GOOS, <<"a", "f">>) :> ContentB)
                  @@ (MkPath(GOOS, <<"a", "g">>) :> ContentB)
                  @@ (MkPath(GOOS, <<"a", "s", "f">>) :> ContentC)
    /\ appConfig.Paths = <<MkPath(GOOS, <<"a">>)>>
    /\ appConfig.RecursiveSearch
    /\ appConfig.FileDuplicatesThreshold = 2
    /\ \A i \in 1..Len(trace) : trace[i].err = ""
    /\ \A k \in 1..Len(output) :
          output[k].msg \notin {"Ignoring error as requested",
                                "Attempting to ignore errors as requested"}

C20_ThreeFilesEndToEnd ==
    ThreeFilesScenario =>
        /\ SizesPruned =>
              /\ DOMAIN sizeIndexBeforePrune = {100}
              /\ Len(sizeIndexBeforePrune[100]) = 3
              /\ DOMAIN combinedFileSizeIndex = {100}
              /\ Len(combinedFileSizeIndex[100]) = 3
        /\ (pc = "hash" /\ trace = <<>>) =>
              \A i \in 1..3 : combinedFileSizeIndex[100][i].Checksum = <<>>
        /\ ChecksumsPruned =>
              /\ DOMAIN fileChecksumIndex = {GenerateCheckSum(ContentB)}
              /\ \A key \in DOMAIN fileChecksumIndex :
                    /\ Len(fileChecksumIndex[key]) = 2
                    /\ {fileChecksumIndex[key][i].FullPath : i \in 1..2} =
                          {MkPath(GOOS, <<"a", "f">>),
                           MkPath(GOOS, <<"a", "g">>)}
        /\ Summarised =>
              /\ duplicateFiles.DuplicateCount = 1
              /\ duplicateFiles.WastedSpace = 100

C20_Witness ==
    /\ ThreeFilesScenario
    /\ pc = "exit 0"
    /\ Len(trace) = 3


FaultLines ==
    {"Ignoring error as requested", "Attempting to ignore errors as requested",
     "Failed to build file size index", "panic: nil pointer dereference"}

FailedSites ==
    {output[k].list : k \in {j \in 1..Len(output) : output[j].msg \in FaultLines}}

\* the files of at least the size threshold that a scan of the path without
\* any fault puts in the size index
FilesToIndex(path) ==
    LET fileMatches == IF appConfig.RecursiveSearch
                       THEN WalkMatches(GOOS, fs, path, <<>>)
                       ELSE ReadDirMatches(GOOS, fs, path)
    IN  {fileMatches[i].FullPath :
            i \in {j \in 1..Len(fileMatches) :
                      fileMatches[j].Size >= appConfig.FileSizeThreshold}}

ScanIsOver == pc \notin {"scan", "prune sizes"}

AsBag(fileMatches) ==
    [fileMatch \in {fileMatches[i] : i \in 1..Len(fileMatches)} |->
        Cardinality({i \in 1..Len(fileMatches) : fileMatches[i] = fileMatch})]

\* the same keys, and under each key the same collection of FileMatches
SameGrouping(first, second) ==
    /\ DOMAIN first = DOMAIN second
    /\ \A key \in DOMAIN first : AsBag(first[key]) = AsBag(second[key])

\* the size index of one root, scanned without a fault
PartialIndex(path, recursiveSearch) ==
    ProcessPath(GOOS, fs, recursiveSearch, FALSE, appConfig.FileSizeThreshold,
                path, NoFault).index

\* the partial indexes of the roots of this filesystem
PartialIndexes ==
    {PartialIndex(path, recursiveSearch) :
        path \in ScanRoots(GOOS) \cap fs.dirs, recursiveSearch \in BOOLEAN}

\* the partial indexes of the roots merged one after the other, the roots
\* taken in the order perm
RECURSIVE MergeInOrder(_, _)
MergeInOrder(perm, n) ==
    IF n = 0 THEN EmptyIndex
    ELSE MergeFileSizeIndexes(
            MergeInOrder(perm, n - 1),
            PartialIndex(appConfig.Paths[perm[n]], appConfig.RecursiveSearch))

ScannedWithoutError == pc = "prune sizes" /\ output = <<>>

\* C23: merging size indexes is commutative and associative up to the order
\* inside each set: for the partial indexes of the roots, a merge in either
\* order and in either nesting has the same keys and under each key the
\* same collection of FileMatches; and the combined index NewFileSizeIndex
\* has built when the scan ends has the same grouping as the merge of the
\* roots' indexes in any other order of the roots.
C23_MergeCommutativeAssociative ==
    ScannedWithoutError =>
        /\ \A partials \in {PartialIndexes} :
              \A a \in partials, b \in partials :
                 /\ SameGrouping(MergeFileSizeIndexes(a, b),
                                 MergeFileSizeIndexes(b, a))
                 /\ \A c \in partials :
                       SameGrouping(
                          MergeFileSizeIndexes(MergeFileSizeIndexes(a, b), c),
                          MergeFileSizeIndexes(a, MergeFileSizeIndexes(b, c)))
        /\ \A perm \in Permutations(1..Len(appConfig.Paths)) :
              SameGrouping(combinedFileSizeIndex,
                           MergeInOrder(perm, Len(appConfig.Paths)))

\* two different roots with files of one size were scanned, and the merge
\* in the other order lists the files of that size in another order
C23_Witness ==
    /\ ScannedWithoutError
    /\ Len(appConfig.Paths) = 2
    /\ appConfig.Paths[1] # appConfig.Paths[2]
    /\ \E key \in DOMAIN combinedFileSizeIndex :
          /\ Len(combinedFileSizeIndex[key]) >= 2
          /\ combinedFileSizeIndex[key] #
                MergeInOrder(<<2, 1>>, 2)[key]


----------------------------------------------------------------------------
(* claims about the rows read from the report (Spec)                       *)

\* row n is the blank row the report writes between two sets
IsBlankRow(n) == csvFile[n] = GenerateEmptyCSVDataRow

\* C25: a row of six empty fields is not an error and never ends the prune
\* run: no run stops with "IgnoringErrors NOT set. Exiting." at such a row.
C25_BlankRowNeverAborts ==
    \A n \in RowsRead :
        IsBlankRow(n) =>
            \A k \in 1..Len(output) :
                ~(/\ output[k].msg = "IgnoringErrors NOT set. Exiting."
                  /\ output[k].n = n
                  /\ output[k].detail = "empty parent directory path")


\* row n has not the six columns of a report row
HasWrongFieldCount(n) == Len(csvFile[n]) # InputCSVFieldCount

\* C26: a row with the wrong number of columns is an error of that row
\* only: without IgnoreErrors the run ends at it; with IgnoreErrors the row
\* is logged and skipped, the run reads on, and the row after it is
\* processed (accepted into dfsEntries when it is valid).
C26_WrongFieldCountIsARowError ==
    \A n \in RowsRead :
        HasWrongFieldCount(n) =>
            IF appConfig.IgnoreErrors
            THEN /\ \E k \in 1..Len(output) :
                       /\ output[k].msg = "ignoring input row"
                       /\ output[k].n = n
                 /\ pc # "exit 1"
                 /\ (pc # "read" /\ n < Len(csvFile)) => n + 1 \in RowsRead
            ELSE pc = "exit 1" /\ rowCounter = n


IsBlank(field) == TrimSpace(field) = <<>>

ParseErrorsOfBlanks ==
    {"empty parent directory path", "empty filename", "empty checksum"}

ValidationErrors ==
    {"invalid parent directory path", "invalid path to file",
     "checksum validation failed"}

\* the errors of the read loop
RowErrors ==
    ParseErrorsOfBlanks \cup ValidationErrors
    \cup {"unexpected number of fields", "failed to convert sizeInBytes",
          "failed to convert remove_file", "unable to stat"}

\* the lines of the read loop that say row n was rejected
RejectionsOf(n) ==
    {k \in 1..Len(output) :
        /\ output[k].n = n
        /\ output[k].msg \in {"ignoring input row",
                              "IgnoringErrors NOT set. Exiting."}
        /\ output[k].detail \in RowErrors}

\* the entry a row of the file at path is accepted as, when its size fields
\* and its removal flag are blank
EntryWithBlanksFilled(row, path) ==
    [ParentDirectory |-> TrimSpace(row[1]),
     Filename        |-> TrimSpace(row[2]),
     SizeHR          |-> ByteCountIEC(Len(fsAtStart.files[path])),
     SizeInBytes     |-> Len(fsAtStart.files[path]),
     Checksum        |-> TrimSpace(row[5]),
     RemoveFile      |-> FALSE]

\* C27: of the six-column rows read: a row with a blank parent directory, a
\* blank filename or a blank checksum is rejected as a parse error and is
\* never an entry; a row with these three fields set and the two sizes and
\* the removal flag blank is no parse error, and when its file is there
\* with that checksum it is accepted with the removal flag false and the
\* size of the file as stat gives it.
C27_RequiredAndOptionalFields ==
    /\ \A j \in 1..Len(dfsEntries) :
          /\ dfsEntries[j].ParentDirectory # <<>>
          /\ dfsEntries[j].Filename # <<>>
          /\ dfsEntries[j].Checksum # <<>>
    /\ \A n \in RowsRead :
          ~HasWrongFieldCount(n) =>
             \A row \in {csvFile[n]} :
                /\ (IsBlank(row[1]) \/ IsBlank(row[2]) \/ IsBlank(row[5])) =>
                      /\ RejectionsOf(n) # {}
                      /\ \A k \in RejectionsOf(n) :
                            output[k].detail \in ParseErrorsOfBlanks
                /\ (/\ ~IsBlank(row[1]) /\ ~IsBlank(row[2]) /\ ~IsBlank(row[5])
                    /\ IsBlank(row[3]) /\ IsBlank(row[4]) /\ IsBlank(row[6])) =>
                      \A path \in {Join(GOOS, TrimSpace(row[1]),
                                        TrimSpace(row[2]))} :
                         /\ \A k \in RejectionsOf(n) :
                               output[k].detail \in ValidationErrors
                         /\ (/\ path \in DOMAIN fsAtStart.files
                             /\ GenerateCheckSum(fsAtStart.files[path])
                                   = TrimSpace(row[5])) =>
                               \E j \in 1..Len(dfsEntries) :
                                  dfsEntries[j] =
                                     EntryWithBlanksFilled(row, path)

\* the row without a checksum was rejected and ignored, and the row after
\* it, with both sizes and the removal flag blank, was accepted
C27_Witness ==
    /\ Len(csvFile) = 3
    /\ rowCounter > 3
    /\ ~IsBlank(csvFile[2][1]) /\ Len(csvFile[2]) = 6 /\ IsBlank(csvFile[2][5])
    /\ RejectionsOf(2) # {}
    /\ IsBlank(csvFile[3][3]) /\ IsBlank(csvFile[3][4]) /\ IsBlank(csvFile[3][6])
    /\ Len(dfsEntries) = 1
    /\ ~dfsEntries[1].RemoveFile
    /\ dfsEntries[1].SizeInBytes = Len(ContentX)


\* C28: every six-column row goes through parsing (with the check of the
\* required fields), validation (with the verification of the checksum),
\* and only then the size backfill: a row is rejected with the error of
\* the first of these steps that fails, so a row that fails verification
\* is never rejected for its stat; a row that passes all of them is an
\* entry with its size filled in; and the files to remove are chosen only
\* when every row has been read, from these entries.
C28_RowStagesInOrder ==
    /\ \A n \in RowsRead :
          ~HasWrongFieldCount(n) =>
             \A parsed \in {ParseInputRow(csvFile[n], InputCSVFieldCount)} :
                \A invalid \in {IF parsed.err # "" THEN ""
                                ELSE ValidateInputRow(GOOS, fsAtStart,
                                                      parsed.entry)} :
                   /\ parsed.err # "" =>
                         /\ RejectionsOf(n) # {}
                         /\ \A k \in RejectionsOf(n) :
                               output[k].detail = parsed.err
                   /\ (parsed.err = "" /\ invalid # "") =>
                         /\ RejectionsOf(n) # {}
                         /\ \A k \in RejectionsOf(n) :
                               output[k].detail = invalid
                   /\ (parsed.err = "" /\ invalid = "") =>
                         /\ RejectionsOf(n) = {}
                         /\ \E j \in 1..Len(dfsEntries) :
                               /\ dfsEntries[j].ParentDirectory =
                                     parsed.entry.ParentDirectory
                               /\ dfsEntries[j].Filename = parsed.entry.Filename
                               /\ dfsEntries[j].Checksum = parsed.entry.Checksum
                               /\ dfsEntries[j].SizeInBytes > 0
                               /\ dfsEntries[j].SizeHR # <<>>
    /\ filesToRemove # <<>> =>
          /\ rowCounter = Len(csvFile) + 1
          /\ filesToRemove = FilesToRemove(dfsEntries)

\* a flagged row with blank sizes whose file is gone was rejected at the
\* validation, the flagged row after it was accepted with its size filled
\* in, and the files to remove have been chosen
C28_Witness ==
    /\ Len(csvFile) = 3
    /\ IsBlank(csvFile[2][4]) /\ RowFlagged(2)
    /\ RowPath(2) \notin DOMAIN fsAtStart.files
    /\ \E k \in RejectionsOf(2) : output[k].detail = "invalid path to file"
    /\ IsBlank(csvFile[3][4]) /\ RowFlagged(3)
    /\ Len(filesToRemove) = 1
    /\ filesToRemove[1].SizeInBytes = Len(ContentX)


\* the rows of this run that were accepted with the removal flag set
AcceptedFlaggedRows(row) ==
    {n \in RowsRead : row[n].accepted /\ row[n].flagged}

\* C29: when the run prints "File removal: S success, F fail" (it is then
\* no dry-run), S + F is the number of accepted rows flagged for removal,
\* S is the number of files of these rows that were on disk when the run
\* started and are gone, and F is 0 unless IgnoreErrors is set.
C29_TallyAddsUp ==
    \A k \in 1..Len(output) :
        output[k].msg = "File removal: success, fail" =>
            \A row \in {RowTable} :
                \A flagged \in {AcceptedFlaggedRows(row)} :
                    /\ ~appConfig.DryRun
                    /\ output[k].n + output[k].list[1] = Cardinality(flagged)
                    /\ output[k].n =
                          Cardinality(Removed \cap {row[n].path : n \in flagged})
                    /\ Removed \subseteq {row[n].path : n \in flagged}
                    /\ output[k].list[1] > 0 => appConfig.IgnoreErrors

\* the tally of a run in which one removal succeeded and one failed
C29_Witness ==
    /\ pc = "exit 0"
    /\ LastLine = Line("File removal: success, fail", 1, "", <<1>>)
    /\ Cardinality(Removed) = 1


\* the paths the rows of the report name
ListedPaths ==
    {RowPath(n) : n \in {m \in 2..Len(csvFile) :
                            Len(csvFile[m]) = InputCSVFieldCount}}

\* the listed files that had checksum c when the run started
CopiesListed(c) ==
    {p \in ListedPaths \cap DOMAIN fsAtStart.files :
        GenerateCheckSum(fsAtStart.files[p]) = c}

\* the checksums in the report that two or more listed files had when the
\* run started: the duplicate sets of the report
DuplicateSetsListed ==
    {c \in {csvFile[m][5] : m \in {k \in 2..Len(csvFile) :
                                     Len(csvFile[k]) = InputCSVFieldCount}} :
        Cardinality(CopiesListed(c)) >= 2}

\* C30: at the end of a run, every checksum of the report that two or
\* more listed files had when the run started is still the checksum of a
\* file at a listed path.
C30_OneCopyOfEveryContentLeft ==
    Exited =>
        \A c \in DuplicateSetsListed :
            \E p \in ListedPaths \cap DOMAIN fs.files :
                GenerateCheckSum(fs.files[p]) = c

\* the run that removed both copies of the duplicate set
BothCopiesRemoved ==
    /\ csvFile \in DuplicateSetReports(GOOS)
    /\ pc = "exit 0"
    /\ run = 1
    /\ Removed = DOMAIN fsAtStart.files


----------------------------------------------------------------------------
(* claims about the report written and read back (CodecSpec)               *)

\* the FileMatch values the report subcommand wrote
MatchesWritten ==
    UNION { {fileChecksumIndex[c][i] : i \in 1..Len(fileChecksumIndex[c])} :
            c \in DOMAIN fileChecksumIndex }

\* the rows prune took that name the directory, the file and the checksum
\* of the FileMatch and have no removal flag
RowsReadBackAs(fileMatch) ==
    {j \in 1..Len(dfsEntries) :
        /\ dfsEntries[j].ParentDirectory = fileMatch.ParentDirectory
        /\ dfsEntries[j].Filename = fileMatch.Name
        /\ dfsEntries[j].Checksum = fileMatch.Checksum
        /\ ~dfsEntries[j].RemoveFile}

\* C24: when prune has read to its end the report that the report
\* subcommand wrote of a checksum index, every FileMatch of the index is
\* one row read, with its directory, its file name and its checksum, and
\* the removal flag not set.
C24_ReportReadsBackAsWritten ==
    (pc = "select" /\ fileChecksumIndex # EmptyIndex) =>
        \A fileMatch \in MatchesWritten :
            Cardinality(RowsReadBackAs(fileMatch)) = 1

\* the report of the files "f" and " f" read back: two rows for "f"
NameTrimmedOnReading ==
    /\ pc = "select"
    /\ fileChecksumIndex # EmptyIndex
    /\ Len(dfsEntries) = 2
    /\ dfsEntries[1].Filename = <<"f">>
    /\ dfsEntries[2].Filename = <<"f">>
    /\ \E fileMatch \in MatchesWritten : fileMatch.Name = <<" ", "f">>

\* the records read are the records written: the csv.Reader undoes the
\* csv.Writer, whatever the names hold
RecordsSurviveTheFile ==
    pc \in {"read", "select"} /\ fileChecksumIndex # EmptyIndex =>
        \E order \in KeyOrders(DOMAIN fileChecksumIndex) :
            csvFile = <<GenerateCSVHeaderRow>>
                      \o CSVDataRows(fileChecksumIndex, order,
                                     appConfig.BlankLineBetweenSets)

====
